---- MODULE Spec2Model ----
(***************************************************************************)
(* Verification model of mcard_js: the card model (MCard, MCardFromData),  *)
(* the CardCollection ingestion protocol (insert / duplicate / collision), *)
(* and the storage engine the collection talks to.                         *)
(***************************************************************************)
EXTENDS Integers, Sequences, FiniteSets, TLC

\* ------------------------------------------------------------------ bounds
MaxTime == 1        \* the wall clock runs over 0..MaxTime
MaxRows == 3        \* the store holds at most MaxRows rows

\* --------------------------------------------------------- algorithm tables
Algs == {"md5", "sha1", "sha224", "sha256", "sha384", "sha512"}

DEFAULT == "sha256"

\* the algorithms callers construct cards with
InputAlgs == {"sha256", "sha512"}

\* digest byte-lengths, the table inside CardCollection.add
HASH_LENGTHS ==
  [a \in Algs |-> CASE a = "md5" -> 16
                    [] a = "sha1" -> 20
                    [] a = "sha224" -> 28
                    [] a = "sha256" -> 32
                    [] a = "sha384" -> 48
                    [] a = "sha512" -> 64]

\* HASH_LENGTHS[x.toLowerCase()] || 0
HashLength(a) == IF a \in DOMAIN HASH_LENGTHS THEN HASH_LENGTHS[a] ELSE 0

\* the next stronger algorithm; sha512 has no entry
HASH_ALGORITHM_HIERARCHY ==
  [a \in Algs \ {"sha512"} |-> CASE a = "md5" -> "sha1"
                                 [] a = "sha1" -> "sha224"
                                 [] a = "sha224" -> "sha256"
                                 [] a = "sha256" -> "sha384"
                                 [] a = "sha384" -> "sha512"]

\* ill-configured hierarchies the upgrade verification defends against
HierarchyCandidates ==
  { HASH_ALGORITHM_HIERARCHY,
    [a \in Algs |-> a],
    [a \in Algs |-> "md5"],
    [a \in Algs |-> IF a = "sha256" THEN "sha224" ELSE "sha512"] }

\* ------------------------------------------------------------------ contents
\* Content bytes.  Caller data is kind "data" with the bytes in v; an event
\* payload is kind "duplicate" or "collision" and carries hashes, algorithms
\* and a timestamp but no raw content.
DataContent(b) ==
  [kind |-> "data", v |-> b, hashes |-> <<>>, algs |-> <<>>, ts |-> 0]

NullContent ==
  [kind |-> "null", v |-> "", hashes |-> <<>>, algs |-> <<>>, ts |-> 0]

\* the byte strings callers store: b1 and b2 are a colliding pair
Bytes == {"b1", "b2", "b3"}

UserContents == {DataContent(b) : b \in Bytes}

IsEvent(content) == content.kind \in {"duplicate", "collision"}

\* b1 and b2 have the same digest under every algorithm; every other content
\* has a digest of its own
Canon(content) ==
  IF content.kind = "data" /\ content.v = "b2" THEN DataContent("b1") ELSE content

\* createHash(algorithm).update(data).digest('hex')
Digest(alg, content) == [alg |-> alg, of |-> Canon(content)]

NoHash == [alg |-> "none", of |-> NullContent]

\* GTime, ALG|ISO|REGION.  Only the algorithm field is read back by the
\* program (get_hash_function); the instant and the region are carried along
\* and never compared, and are left out of the stamp here.
stamp_now(alg, t) == [alg |-> alg]

get_hash_function(g_time) == g_time.alg

\* ------------------------------------------------------------------- cards
\* a slip: the stamp is taken under the default algorithm
MCard_StampDefault(content, alg, t) ==
  [content |-> content,
   hash |-> Digest(alg, content),
   hash_algorithm |-> alg,
   g_time |-> stamp_now(DEFAULT, t)]

\* a slip: the digest is taken over the content and the time of construction
MCard_HashOfTimestamp(content, alg, t) ==
  [content |-> content,
   hash |-> Digest(alg, [content EXCEPT !.ts = t]),
   hash_algorithm |-> alg,
   g_time |-> stamp_now(alg, t)]

\* new MCard(content, hashFunction): digest and stamp the content
MCard(content, alg, t) ==
  [content |-> content,
   hash |-> Digest(alg, content),
   hash_algorithm |-> alg,
   g_time |-> stamp_now(alg, t)]

\* a slip: the digest the parent constructor computed is kept
MCardFromData_Redigest(content, hash_value, g_time_str) ==
  [content |-> content,
   hash |-> Digest(get_hash_function(g_time_str), content),
   hash_algorithm |-> get_hash_function(g_time_str),
   g_time |-> g_time_str]

\* a slip: the parent constructor is called without the stamp's algorithm
MCardFromData_DefaultAlgorithm(content, hash_value, g_time_str) ==
  [content |-> content,
   hash |-> hash_value,
   hash_algorithm |-> DEFAULT,
   g_time |-> g_time_str]

\* new MCardFromData(content, hash_value, g_time_str): the hash and g_time of
\* the row are taken as they are, the algorithm comes from g_time
MCardFromData(content, hash_value, g_time_str) ==
  [content |-> content,
   hash |-> hash_value,
   hash_algorithm |-> get_hash_function(g_time_str),
   g_time |-> g_time_str]

\* MCard.equals: this.hash === other.hash
equals(a, b) == a.hash = b.hash

\* the null a caller may pass to add
NullCard ==
  [content |-> NullContent, hash |-> NoHash, hash_algorithm |-> "null",
   g_time |-> stamp_now("null", 0)]

\* ------------------------------------------------------- MCard.constructor
\* what callers hand to new MCard: null, undefined, a number, a string, a
\* Buffer, a plain object, an array or a Uint8Array that is no Buffer; v is
\* the text, the bytes or the members, "" when there are none
RawInput(type, v) == [type |-> type, v |-> v]

RawInputs ==
  {RawInput(type, "") : type \in {"null", "undefined", "string", "buffer",
                                  "object", "array", "view"}}
  \cup {RawInput("number", "7"), RawInput("string", "b1"),
        RawInput("buffer", "b2"), RawInput("object", "a:1")}

\* JSON.stringify of an object, an array or a typed array
JSONStringify(content) ==
  IF content.type = "array" THEN "[" \o content.v \o "]"
  ELSE "{" \o content.v \o "}"

Converted(bytes) == [ok |-> TRUE, bytes |-> bytes, error |-> "none"]

Rejected(err) == [ok |-> FALSE, bytes |-> "", error |-> err]

\* SafeBuffer.isBuffer: Buffer.isBuffer under Node, instanceof Uint8Array in
\* a browser
IsBuffer(content, node) ==
  \/ content.type = "buffer"
  \/ content.type = "view" /\ ~node

\* the conversion of the content to this._content
ToContentBuffer(content, node) ==
  IF content.type = "null" THEN Rejected("ContentNone")
  ELSE IF IsBuffer(content, node) THEN Converted(content.v)
  ELSE IF content.type = "string" THEN Converted(content.v)
  ELSE IF content.type \in {"object", "array", "view"}
  THEN IF content.v = "" /\ content.type = "object"
       THEN Rejected("StringifyFailed")
       ELSE Converted(JSONStringify(content))
  ELSE IF content.type = "undefined" THEN Rejected("ContentUndefined")
  ELSE Rejected("UnsupportedType")

Constructed(card) == [ok |-> TRUE, card |-> card, error |-> "none"]

NotConstructed(err) == [ok |-> FALSE, card |-> NullCard, error |-> err]

\* a slip: the length of the converted content is not checked
MCardConstructor_NoLengthCheck(content, hashFunction, t, node) ==
  LET buf == ToContentBuffer(content, node)
  IN IF ~buf.ok THEN NotConstructed(buf.error)
     ELSE Constructed(MCard(DataContent(buf.bytes), hashFunction, t))

\* new MCard(content, hashFunction) from raw content: conversion, the check
\* for empty bytes, then digest and stamp
MCardConstructor(content, hashFunction, t, node) ==
  LET buf == ToContentBuffer(content, node)
  IN IF ~buf.ok THEN NotConstructed(buf.error)
     ELSE IF buf.bytes = "" THEN NotConstructed("ContentEmpty")
     ELSE Constructed(MCard(DataContent(buf.bytes), hashFunction, t))

\* HashAlgorithm(name): the configured validator of algorithm names
HashAlgorithm(name) ==
  IF name \in Algs THEN [ok |-> TRUE, name |-> name]
  ELSE [ok |-> FALSE, name |-> name]

\* the names createHash of the platform's digest provider accepts: the six
\* names of the program and further ones the program does not list
ProviderAlgs == Algs \cup {"sha3-256"}

\* the names a caller may pass as hashFunction or options.forceHashAlgorithm;
\* "" stands for a falsy value
AlgNames == {"", "md5", "sha256", "sha512", "sha3-256", "bogus"}

\* options.forceHashAlgorithm || hashFunction
Forced(hashFunction, forceHashAlgorithm) ==
  IF forceHashAlgorithm # "" THEN forceHashAlgorithm ELSE hashFunction

\* digest and stamp of the constructor: the digest under the validated name
\* or, once that has thrown, the digest createHash gives under the name as it
\* was passed (sha256 for a falsy one)
Hashed(content, forcedHashAlgorithm, t) ==
  IF HashAlgorithm(forcedHashAlgorithm).ok
  THEN Constructed(MCard(content, forcedHashAlgorithm, t))
  ELSE LET fallback == IF forcedHashAlgorithm # "" THEN forcedHashAlgorithm
                       ELSE "sha256"
       IN IF fallback \in ProviderAlgs
          THEN Constructed(MCard(content, fallback, t))
          ELSE NotConstructed("DigestUnsupported")

\* new MCard(content, hashFunction, options) with any algorithm name
MCardConstructorOptions(content, hashFunction, forceHashAlgorithm, t, node) ==
  LET buf == ToContentBuffer(content, node)
  IN IF ~buf.ok THEN NotConstructed(buf.error)
     ELSE IF buf.bytes = "" THEN NotConstructed("ContentEmpty")
     ELSE Hashed(DataContent(buf.bytes),
                 Forced(hashFunction, forceHashAlgorithm), t)

\* an empty or missing g_time string
EmptyGTime == [alg |-> ""]

\* new MCardFromData(content, hash_value, g_time_str) from a persisted row:
\* the four checks (null, undefined and the empty string are falsy), then
\* the parent constructor under the algorithm of g_time, whose hash and
\* stamp are replaced by those of the row
MCardFromDataConstructor(content, hash_value, g_time_str, node) ==
  IF \/ content.type \in {"null", "undefined"}
     \/ content.type = "string" /\ content.v = ""
  THEN NotConstructed("ContentNullOrEmpty")
  ELSE IF ~IsBuffer(content, node) THEN NotConstructed("ContentNotBuffer")
  ELSE IF hash_value = NoHash THEN NotConstructed("HashEmpty")
  ELSE IF g_time_str = EmptyGTime THEN NotConstructed("GTimeEmpty")
  ELSE LET parent == MCardConstructor(content,
                                      get_hash_function(g_time_str), 0, node)
       IN IF ~parent.ok THEN parent
          ELSE Constructed(MCardFromData(parent.card.content, hash_value,
                                         g_time_str))

\* ------------------------------------------------------------ event producer
generateDuplicationEvent(existing, t) ==
  [kind |-> "duplicate", v |-> "", hashes |-> <<existing.hash>>,
   algs |-> <<existing.hash_algorithm>>, ts |-> t]

generateCollisionEvent(card, existing, upgraded, t) ==
  [kind |-> "collision", v |-> "",
   hashes |-> <<existing.hash, Digest(upgraded, card.content)>>,
   algs |-> <<card.hash_algorithm, upgraded>>, ts |-> t]

\* ------------------------------------------------------------------ engine
\* the rows of table card (hash PRIMARY KEY, g_time, content)
Row(card) == [hash |-> card.hash, g_time |-> card.g_time, content |-> card.content]

HasHash(rs, h) == \E r \in rs : r.hash = h

\* INSERT INTO card: the ensure_unique_hash trigger aborts the insert when the
\* hash is already present
\* a slip: a table without the primary key and the trigger
EngineAdd_NoTrigger(rs, card) ==
  [ok |-> TRUE, rows |-> rs \cup {Row(card)}]

EngineAdd(rs, card) ==
  IF HasHash(rs, card.hash)
  THEN [ok |-> FALSE, rows |-> rs]
  ELSE [ok |-> TRUE, rows |-> rs \cup {Row(card)}]

\* engine.get: the card reconstructed from the row, or null
EngineFound(rs, h) == HasHash(rs, h)

EngineGet(rs, h) ==
  LET r == CHOOSE x \in rs : x.hash = h
  IN MCardFromData(r.content, r.hash, r.g_time)

EngineDelete(rs, h) == {r \in rs : r.hash # h}

EngineUpdate(rs, h, newContent) ==
  {IF r.hash = h THEN [r EXCEPT !.content = newContent] ELSE r : r \in rs}

EngineCount(rs) == Cardinality(rs)

\* ------------------------------------------------- CardCollection.add
\* what one call of add leaves behind: the rows, the branch it took, and
\* either the hash it returned or the error it threw
Returns(rs, branch, c) ==
  [rows |-> rs, branch |-> branch, ok |-> TRUE, hash |-> c.hash,
   bytes |-> c.content, error |-> "none"]

Thrown(rs, branch, err) ==
  [rows |-> rs, branch |-> branch, ok |-> FALSE, hash |-> NoHash,
   bytes |-> NullContent, error |-> err]

\* SafeBuffer.compare(content1, content2) === 0
SameBytes(content1, content2) == content1 = content2

\* the engine calls of one add are numbered 1 (get), 2 (first engine.add),
\* 3 (second engine.add); fault names the one that fails, 0 for none
\* a slip: the hash is returned but the card is never handed to the engine
InsertBranch_NoWrite(card, rs, fault) == Returns(rs, "insert", card)

InsertBranch(card, rs, fault) ==
  LET w == EngineAdd(rs, card)
  IN IF fault = 2 THEN Thrown(rs, "insert", "EngineFailure")
     ELSE IF ~w.ok THEN Thrown(rs, "insert", "HashConflict")
     ELSE Returns(w.rows, "insert", card)

\* a slip: the event card is built and its hash returned, but never written
DuplicateBranch_NoWrite(card, existing, rs, t, fault) ==
  LET duplicate_event_card ==
        MCard(generateDuplicationEvent(existing, t), DEFAULT, t)
  IN IF fault = 2 THEN Thrown(rs, "duplicate", "EngineFailure")
     ELSE Returns(rs, "duplicate", duplicate_event_card)

\* a slip: the event card is digested under the algorithm of the incoming card
DuplicateBranch_CardAlgorithm(card, existing, rs, t, fault) ==
  LET duplicate_event_card ==
        MCard(generateDuplicationEvent(existing, t), card.hash_algorithm, t)
      w == EngineAdd(rs, duplicate_event_card)
  IN IF fault = 2 THEN Thrown(rs, "duplicate", "EngineFailure")
     ELSE IF ~w.ok THEN Thrown(rs, "duplicate", "HashConflict")
     ELSE Returns(w.rows, "duplicate", duplicate_event_card)

\* a slip: a refused event write is swallowed and the event hash returned
DuplicateBranch_Swallow(card, existing, rs, t, fault) ==
  LET duplicate_event_card ==
        MCard(generateDuplicationEvent(existing, t), DEFAULT, t)
      w == EngineAdd(rs, duplicate_event_card)
  IN IF fault = 2 THEN Thrown(rs, "duplicate", "EngineFailure")
     ELSE Returns(w.rows, "duplicate", duplicate_event_card)

\* a slip: the duplicate branch returns the original hash, as its comment says
DuplicateBranch_OriginalHash(card, existing, rs, t, fault) ==
  LET duplicate_event_card ==
        MCard(generateDuplicationEvent(existing, t), DEFAULT, t)
      w == EngineAdd(rs, duplicate_event_card)
  IN IF fault = 2 THEN Thrown(rs, "duplicate", "EngineFailure")
     ELSE IF ~w.ok THEN Thrown(rs, "duplicate", "HashConflict")
     ELSE Returns(w.rows, "duplicate", existing)

DuplicateBranch(card, existing, rs, t, fault) ==
  LET duplicate_event_card ==
        MCard(generateDuplicationEvent(existing, t), DEFAULT, t)
      w == EngineAdd(rs, duplicate_event_card)
  IN IF fault = 2 THEN Thrown(rs, "duplicate", "EngineFailure")
     ELSE IF ~w.ok THEN Thrown(rs, "duplicate", "HashConflict")
     ELSE Returns(w.rows, "duplicate", duplicate_event_card)

\* a slip: only the algorithm names are compared, not the digest lengths
UpgradeVerified_NamesOnly(card, collision_content_card, upgradedFunction) ==
  collision_content_card.hash_algorithm # card.hash_algorithm

\* the two checks on the upgraded card: a different algorithm, a longer digest
UpgradeVerified(card, collision_content_card, upgradedFunction) ==
  /\ collision_content_card.hash_algorithm # card.hash_algorithm
  /\ ~(HashLength(upgradedFunction) <= HashLength(card.hash_algorithm))

\* a slip: the event names the incoming card and its algorithm a second time
\* instead of the upgraded card
CollisionWrites_EventOfIncoming(card, existing, collision_content_card, upgradedFunction, rs, t, fault) ==
  LET w1 == EngineAdd(rs, collision_content_card)
      collision_event_card ==
        MCard(generateCollisionEvent(card, existing, card.hash_algorithm, t),
              DEFAULT, t)
      w2 == EngineAdd(w1.rows, collision_event_card)
  IN IF fault = 2 THEN Thrown(rs, "collision", "EngineFailure")
     ELSE IF ~w1.ok THEN Thrown(rs, "collision", "HashConflict")
     ELSE IF fault = 3 THEN Thrown(w1.rows, "collision", "EngineFailure")
     ELSE IF ~w2.ok THEN Thrown(w1.rows, "collision", "HashConflict")
     ELSE Returns(w2.rows, "collision", collision_event_card)

\* a slip: the upgraded card is built but only the event card is written
CollisionWrites_EventOnly(card, existing, collision_content_card, upgradedFunction, rs, t, fault) ==
  LET collision_event_card ==
        MCard(generateCollisionEvent(card, existing, upgradedFunction, t),
              DEFAULT, t)
      w2 == EngineAdd(rs, collision_event_card)
  IN IF fault = 2 THEN Thrown(rs, "collision", "EngineFailure")
     ELSE IF ~w2.ok THEN Thrown(rs, "collision", "HashConflict")
     ELSE Returns(w2.rows, "collision", collision_event_card)

\* a slip: the upgraded card takes the place of the card it collided with
CollisionWrites_ReplaceOriginal(card, existing, collision_content_card, upgradedFunction, rs, t, fault) ==
  LET kept == EngineDelete(rs, existing.hash)
      w1 == EngineAdd(kept, collision_content_card)
      collision_event_card ==
        MCard(generateCollisionEvent(card, existing, upgradedFunction, t),
              DEFAULT, t)
      w2 == EngineAdd(w1.rows, collision_event_card)
  IN IF fault = 2 THEN Thrown(rs, "collision", "EngineFailure")
     ELSE IF ~w1.ok THEN Thrown(rs, "collision", "HashConflict")
     ELSE IF fault = 3 THEN Thrown(w1.rows, "collision", "EngineFailure")
     ELSE IF ~w2.ok THEN Thrown(w1.rows, "collision", "HashConflict")
     ELSE Returns(w2.rows, "collision", collision_event_card)

\* a slip: the event card is written before the upgraded card
CollisionWrites_EventFirst(card, existing, collision_content_card, upgradedFunction, rs, t, fault) ==
  LET collision_event_card ==
        MCard(generateCollisionEvent(card, existing, upgradedFunction, t),
              DEFAULT, t)
      w1 == EngineAdd(rs, collision_event_card)
      w2 == EngineAdd(w1.rows, collision_content_card)
  IN IF fault = 2 THEN Thrown(rs, "collision", "EngineFailure")
     ELSE IF ~w1.ok THEN Thrown(rs, "collision", "HashConflict")
     ELSE IF fault = 3 THEN Thrown(w1.rows, "collision", "EngineFailure")
     ELSE IF ~w2.ok THEN Thrown(w1.rows, "collision", "HashConflict")
     ELSE Returns(w2.rows, "collision", collision_event_card)

\* the two writes of the collision branch, the upgraded card first
CollisionWrites(card, existing, collision_content_card, upgradedFunction, rs, t, fault) ==
  LET w1 == EngineAdd(rs, collision_content_card)
      collision_event_card ==
        MCard(generateCollisionEvent(card, existing, upgradedFunction, t),
              DEFAULT, t)
      w2 == EngineAdd(w1.rows, collision_event_card)
  IN IF fault = 2 THEN Thrown(rs, "collision", "EngineFailure")
     ELSE IF ~w1.ok THEN Thrown(rs, "collision", "HashConflict")
     ELSE IF fault = 3 THEN Thrown(w1.rows, "collision", "EngineFailure")
     ELSE IF ~w2.ok THEN Thrown(w1.rows, "collision", "HashConflict")
     ELSE Returns(w2.rows, "collision", collision_event_card)

\* a slip: without a successor the card's own algorithm is tried again
CollisionBranch_SameAlgorithm(card, existing, rs, t, hier, fault) ==
  LET currentHashFunction == card.hash_algorithm
      upgradedFunction == IF currentHashFunction \in DOMAIN hier
                          THEN hier[currentHashFunction]
                          ELSE currentHashFunction
      collision_content_card == MCard(card.content, upgradedFunction, t)
  IN IF ~UpgradeVerified(card, collision_content_card, upgradedFunction)
     THEN Thrown(rs, "collision", "UpgradeFailed")
     ELSE CollisionWrites(card, existing, collision_content_card,
                          upgradedFunction, rs, t, fault)

CollisionBranch(card, existing, rs, t, hier, fault) ==
  LET currentHashFunction == card.hash_algorithm
  IN IF currentHashFunction \notin DOMAIN hier
     THEN Thrown(rs, "collision", "NoStrongerAlgorithm")
     ELSE LET upgradedFunction == hier[currentHashFunction]
              collision_content_card == MCard(card.content, upgradedFunction, t)
          IN IF ~UpgradeVerified(card, collision_content_card, upgradedFunction)
             THEN Thrown(rs, "collision", "UpgradeFailed")
             ELSE CollisionWrites(card, existing, collision_content_card,
                                  upgradedFunction, rs, t, fault)

\* a slip: the lookup is skipped and every card is handed to the engine
add_NoLookup(card, rs, t, hier, fault) ==
  IF card = NullCard THEN Thrown(rs, "none", "NullCard")
  ELSE IF fault = 1 THEN Thrown(rs, "none", "EngineFailure")
  ELSE InsertBranch(card, rs, fault)

\* what add does once engine.get has answered: found tells whether a card
\* came back, existing_card is that card
addAfterLookup(card, found, existing_card, rs, t, hier, fault) ==
  IF found
  THEN IF SameBytes(existing_card.content, card.content)
       THEN DuplicateBranch(card, existing_card, rs, t, fault)
       ELSE CollisionBranch(card, existing_card, rs, t, hier, fault)
  ELSE InsertBranch(card, rs, fault)

\* the answer of engine.get(card.hash) as add holds it
Lookup(rs, card) ==
  IF EngineFound(rs, card.hash)
  THEN [found |-> TRUE, existing_card |-> EngineGet(rs, card.hash)]
  ELSE [found |-> FALSE, existing_card |-> NullCard]

add(card, rs, t, hier, fault) ==
  IF card = NullCard THEN Thrown(rs, "none", "NullCard")
  ELSE IF fault = 1 THEN Thrown(rs, "none", "EngineFailure")
  ELSE LET got == Lookup(rs, card)
       IN addAfterLookup(card, got.found, got.existing_card, rs, t, hier,
                         fault)

\* the engine operations one call of add invokes, in the order of the calls,
\* whether they return or throw
CollisionCalls(card, existing, rs, t, hier, fault) ==
  LET currentHashFunction == card.hash_algorithm
  IN IF currentHashFunction \notin DOMAIN hier THEN <<>>
     ELSE LET upgradedFunction == hier[currentHashFunction]
              collision_content_card == MCard(card.content, upgradedFunction, t)
          IN IF ~UpgradeVerified(card, collision_content_card, upgradedFunction)
             THEN <<>>
             ELSE IF fault = 2 \/ ~EngineAdd(rs, collision_content_card).ok
             THEN <<"add">>
             ELSE <<"add", "add">>

EngineCalls(card, rs, t, hier, fault) ==
  IF card = NullCard THEN <<>>
  ELSE IF fault = 1 THEN <<"get">>
  ELSE LET got == Lookup(rs, card)
       IN <<"get">> \o
          (IF ~got.found THEN <<"add">>
           ELSE IF SameBytes(got.existing_card.content, card.content)
           THEN <<"add">>
           ELSE CollisionCalls(card, got.existing_card, rs, t, hier, fault))

\* what one call of update leaves behind: the rows, what it returned or the
\* error it threw, the calls of engine.update it made, and whether the engine
\* raised EngineFailure during the call
Updated(rs, result, engine_updates) ==
  [rows |-> rs, ok |-> TRUE, result |-> result, error |-> "none",
   engine_updates |-> engine_updates, raised |-> FALSE]

UpdateSwallowed(rs) ==
  [rows |-> rs, ok |-> TRUE, result |-> FALSE, error |-> "none",
   engine_updates |-> 1, raised |-> TRUE]

UpdateThrown(rs, err, engine_updates) ==
  [rows |-> rs, ok |-> FALSE, result |-> FALSE, error |-> err,
   engine_updates |-> engine_updates, raised |-> err = "EngineFailure"]

\* a slip: update goes to the engine without looking the card up
update_NoLookup(h, newContent, rs, fault) ==
  IF h = NoHash THEN UpdateThrown(rs, "InvalidArgument", 0)
  ELSE IF fault = 2 THEN UpdateSwallowed(rs)
  ELSE Updated(EngineUpdate(rs, h, newContent), TRUE, 1)

\* update(hash, newContent): an empty hash is refused, false when the card is
\* absent, else engine.update, whose error is caught and answered with false.
\* fault 1 fails engine.get, fault 2 fails engine.update
update(h, newContent, rs, fault) ==
  IF h = NoHash THEN UpdateThrown(rs, "InvalidArgument", 0)
  ELSE IF fault = 1 THEN UpdateThrown(rs, "EngineFailure", 0)
  ELSE IF ~EngineFound(rs, h) THEN Updated(rs, FALSE, 0)
  ELSE IF fault = 2 THEN UpdateSwallowed(rs)
  ELSE Updated(EngineUpdate(rs, h, newContent), TRUE, 1)

\* -------------------------------------------------------------- pagination
MaxPage == 2        \* callers ask for pages 0..MaxPage
MaxPageSize == 2    \* and for page sizes 0..MaxPageSize

\* the default page size, scaled to the size of the stores explored here
DEFAULT_PAGE_SIZE == 2

PageNumbers == 0..MaxPage

PageSizes == 0..MaxPageSize

Min(a, b) == IF a < b THEN a ELSE b

\* Math.ceil(total_items / page_size)
Ceil(total_items, page_size) == (total_items + page_size - 1) \div page_size

\* Array.prototype.slice(start_idx, end_idx) on a sequence
Slice(seq, start_idx, end_idx) ==
  SubSeq(seq, start_idx + 1, Min(end_idx, Len(seq)))

\* an operation that threw, after engine_calls calls of the engine
PageFailure(err, calls) ==
  [ok |-> FALSE, error |-> err, engine_calls |-> calls, items |-> <<>>,
   total_items |-> 0, page_number |-> 0, page_size |-> 0,
   has_next |-> FALSE, has_previous |-> FALSE, total_pages |-> 0,
   next_page |-> -1, previous_page |-> -1]

\* new Page(pageData): previous_page and next_page are derived, null is -1
Page(items, total_items, page_number, page_size, has_next, has_previous, total_pages) ==
  [ok |-> TRUE, error |-> "none", engine_calls |-> 1, items |-> items,
   total_items |-> total_items, page_number |-> page_number,
   page_size |-> page_size, has_next |-> has_next,
   has_previous |-> has_previous, total_pages |-> total_pages,
   next_page |-> IF has_next THEN page_number + 1 ELSE -1,
   previous_page |-> IF has_previous THEN page_number - 1 ELSE -1]

\* engine.get_page(n, size) over the enumeration e of the rows.  What an
\* engine does with n < 1 or size < 1 is not laid down: a strict engine
\* fails, any other returns an empty page.
EngineGetPage(e, n, size, strict) ==
  IF n < 1 \/ size < 1
  THEN IF strict
       THEN PageFailure("EngineFailure", 1)
       ELSE Page(<<>>, Len(e), n, size, FALSE, FALSE, 0)
  ELSE LET total_pages == IF Len(e) > 0 THEN Ceil(Len(e), size) ELSE 0
       IN IF Len(e) > 0 /\ n > total_pages
          THEN PageFailure("PageOutOfRange", 1)
          ELSE Page([i \in 1..Len(Slice(e, (n - 1) * size, n * size)) |->
                       LET r == Slice(e, (n - 1) * size, n * size)[i]
                       IN MCardFromData(r.content, r.hash, r.g_time)],
                    Len(e), n, size, n < total_pages, n > 1, total_pages)

\* engine.get_all(n, size): the engine's name for get_page
EngineGetAll(e, n, size, strict) == EngineGetPage(e, n, size, strict)

\* a slip: total_pages is left to the default of Page, as get_all leaves it
get_page_NoTotalPages(page_number, page_size, e, strict) ==
  IF page_number < 1 THEN PageFailure("InvalidArgument", 0)
  ELSE IF page_size < 1 THEN PageFailure("InvalidArgument", 0)
  ELSE LET result == EngineGetPage(e, page_number, page_size, strict)
       IN IF ~result.ok THEN result
          ELSE Page(result.items, result.total_items, result.page_number,
                    result.page_size, result.has_next, result.has_previous, 0)

\* a slip: the range check forgets that an empty store has no pages
get_page_NoEmptyGuard(page_number, page_size, e, strict) ==
  IF page_number < 1 THEN PageFailure("InvalidArgument", 0)
  ELSE IF page_size < 1 THEN PageFailure("InvalidArgument", 0)
  ELSE LET result == EngineGetPage(e, page_number, page_size, strict)
           total_pages == IF result.total_items > 0
                          THEN Ceil(result.total_items, page_size)
                          ELSE 0
       IN IF ~result.ok THEN result
          ELSE IF page_number > total_pages
          THEN PageFailure("PageOutOfRange", 1)
          ELSE Page(result.items, result.total_items, result.page_number,
                    result.page_size, result.has_next, result.has_previous,
                    total_pages)

get_page(page_number, page_size, e, strict) ==
  IF page_number < 1 THEN PageFailure("InvalidArgument", 0)
  ELSE IF page_size < 1 THEN PageFailure("InvalidArgument", 0)
  ELSE LET result == EngineGetPage(e, page_number, page_size, strict)
           total_pages == IF result.total_items > 0
                          THEN Ceil(result.total_items, page_size)
                          ELSE 0
       IN IF ~result.ok THEN result
          ELSE IF result.total_items > 0 /\ page_number > total_pages
          THEN PageFailure("PageOutOfRange", 1)
          ELSE Page(result.items, result.total_items, result.page_number,
                    result.page_size, result.has_next, result.has_previous,
                    total_pages)

\* get_all hands its arguments to the engine and leaves total_pages to the
\* default of Page
get_all(page_number, page_size, e, strict) ==
  LET result == EngineGetAll(e, page_number, page_size, strict)
  IN IF ~result.ok THEN result
     ELSE Page(result.items, result.total_items,
               IF result.page_number # 0 THEN result.page_number
               ELSE page_number,
               IF result.page_size # 0 THEN result.page_size ELSE page_size,
               result.has_next, result.has_previous, 0)

\* search_by_hash filters the items of engine.get_all(), called without
\* arguments: the engine's first page of the default size
search_by_hash(hash_value, page_number, page_size, e, strict) ==
  IF hash_value = NoHash THEN PageFailure("InvalidArgument", 0)
  ELSE IF page_number < 1 THEN PageFailure("InvalidArgument", 0)
  ELSE IF page_size < 1 THEN PageFailure("InvalidArgument", 0)
  ELSE LET all == EngineGetAll(e, 1, DEFAULT_PAGE_SIZE, strict)
           Matches(card) == card.hash = hash_value
           matching_cards == SelectSeq(all.items, Matches)
           total_items == Len(matching_cards)
           start_idx == (page_number - 1) * page_size
           end_idx == start_idx + page_size
       IN Page(Slice(matching_cards, start_idx, end_idx), total_items,
               page_number, page_size, end_idx < total_items,
               page_number > 1, 0)

\* ------------------------------------------------------------ text search
\* the text of the stored bytes, character by character.  The event payloads
\* are JSON text that holds none of the characters searched for.
Text(content) ==
  IF content.kind # "data" THEN <<"{", "}">>
  ELSE IF content.v = "b1" THEN <<"X", "1">>
  ELSE IF content.v = "b2" THEN <<"X", "2">>
  ELSE IF content.v = "b3" THEN <<"X", "3">>
  ELSE <<"J">>

\* String.prototype.includes
includes(contentStr, search_string) ==
  \E i \in 1..(Len(contentStr) - Len(search_string) + 1) :
    SubSeq(contentStr, i, i + Len(search_string) - 1) = search_string

\* a slip: only a card whose whole text is the search string matches
EngineSearchByString_WholeText(e, search_string, page_number, page_size) ==
  LET Matches(r) == Text(r.content) = search_string
      matchingCards == SelectSeq(e, Matches)
      start_idx == (page_number - 1) * page_size
      end_idx == start_idx + page_size
      items == Slice(matchingCards, start_idx, end_idx)
  IN Page([i \in DOMAIN items |->
             MCardFromData(items[i].content, items[i].hash, items[i].g_time)],
          Len(matchingCards), page_number, page_size,
          end_idx < Len(matchingCards), page_number > 1, 0)

\* engine.search_by_string as the in-memory engine of the tests has it: the
\* cards whose text includes the search string, in insertion order, cut to
\* the page asked for
EngineSearchByString(e, search_string, page_number, page_size) ==
  LET Matches(r) == includes(Text(r.content), search_string)
      matchingCards == SelectSeq(e, Matches)
      start_idx == (page_number - 1) * page_size
      end_idx == start_idx + page_size
      items == Slice(matchingCards, start_idx, end_idx)
  IN Page([i \in DOMAIN items |->
             MCardFromData(items[i].content, items[i].hash, items[i].g_time)],
          Len(matchingCards), page_number, page_size,
          end_idx < Len(matchingCards), page_number > 1, 0)

\* search_by_string hands its arguments to the engine as they are
search_by_string(search_string, page_number, page_size, e) ==
  EngineSearchByString(e, search_string, page_number, page_size)

\* ------------------------------------------------ persistence middleware
MaxState == 2       \* store states are told apart by a counter 0..MaxState

StoreStates == 0..MaxState

NoSnapshot == -1

\* action.meta: absent, or an object that may already hold a stateSnapshot
NoMeta == [present |-> FALSE, source |-> "none", stateSnapshot |-> NoSnapshot]

Metas ==
  {NoMeta, [present |-> TRUE, source |-> "ui", stateSnapshot |-> 0]}

\* the actions dispatched: null, or an object with a type ("" when it has
\* none), a payload and a meta
NullAction == [null |-> TRUE, type |-> "", payload |-> "", meta |-> NoMeta]

ActionTypes ==
  {"", "todo/addTask", "ADD_CARD", "test/action", "TEST_ACTION",
   "todo/addTaskDone"}

Payloads == {"content", "password"}

Actions ==
  {NullAction} \cup
  {[null |-> FALSE, type |-> type, payload |-> payload, meta |-> meta] :
     type \in ActionTypes, payload \in Payloads, meta \in Metas}

\* the whitelist inside the middleware
PersistableTypes == {"todo/addTask", "ADD_CARD", "test/action"}

isPersistable(action) == \E type \in PersistableTypes : action.type = type

\* the reducers run by next(action): an action with a type moves the state on
Reduce(state, action) ==
  IF action.null \/ action.type = "" THEN state
  ELSE (state + 1) % (MaxState + 1)

\* what the middleware is given: storageService is "missing" or names how
\* createAndStoreMCard ends; getState is a function, a function that throws,
\* or absent (then store.state is read); next returns a value or throws
StorageServices == {"missing", "resolves", "throws", "rejects"}

GetStates == {"function", "throws", "absent"}

NextResults == {"r1", "r2"}

NoResult == "none"

Nexts ==
  {[throws |-> TRUE, value |-> NoResult]}
  \cup {[throws |-> FALSE, value |-> v] : v \in NextResults}

\* { ...action, meta: { ...(action.meta || {}), stateSnapshot: state } }
actionWithState(action, state) ==
  [action EXCEPT !.meta = [present |-> TRUE, source |-> action.meta.source,
                           stateSnapshot |-> state]]

\* one run of the handler up to its first suspension: the calls it made in
\* order, the store state after next, the object handed to
\* createAndStoreMCard, the dispatched object as the run leaves it, and the
\* state of the promise the handler returned
Handled(action, log, state, stored, outcome, value) ==
  [action |-> action, dispatched |-> action, log |-> log, state |-> state,
   stored |-> stored, outcome |-> outcome, value |-> value]

\* a slip: every action with a type is persisted
ShouldPersist_AnyType(action, storageService) ==
  /\ ~action.null
  /\ action.type # ""
  /\ storageService # "missing"

\* action && action.type, then isPersistable && storageService
ShouldPersist(action, storageService) ==
  /\ ~action.null
  /\ action.type # ""
  /\ isPersistable(action)
  /\ storageService # "missing"

\* a slip: the state the store had before next(action) is taken
ReadState_BeforeNext(store, before, after) == before

\* store.getState(), or store.state when getState is no function; it runs
\* after next, so it sees the state next has left
ReadState(store, before, after) == after

ReadStateLog(store) ==
  IF store.getState = "absent" THEN <<>> ELSE <<"getState">>

\* a slip: an exception of the persistence code rejects the handler
Caught_Rethrow(action, log, state, stored, result) ==
  Handled(action, log, state, stored, "rejected", NoResult)

\* catch (error): the error is logged and the result of next returned
Caught(action, log, state, stored, result) ==
  Handled(action, log, state, stored, "resolved", result)

\* a slip: next is called after the persistence code, not before
createMcardPersistenceMiddleware_NextLast(storageService, store, next, action) ==
  LET state == Reduce(store.state, action)
      result == next.value
      snapshot == actionWithState(action, store.state)
      read == ReadStateLog(store)
      persisted == IF store.getState = "throws" THEN NullAction ELSE snapshot
      log == IF ~ShouldPersist(action, storageService) THEN <<"next">>
             ELSE IF store.getState = "throws" THEN read \o <<"next">>
             ELSE read \o <<"createAndStoreMCard", "next">>
      stored == IF ShouldPersist(action, storageService) THEN persisted
                ELSE NullAction
  IN IF next.throws
     THEN Handled(action, log, store.state, stored, "rejected", NoResult)
     ELSE IF ShouldPersist(action, storageService)
             /\ store.getState # "throws" /\ storageService # "throws"
     THEN Handled(action, log, state, stored, "pending", result)
     ELSE Handled(action, log, state, stored, "resolved", result)

\* createMcardPersistenceMiddleware(storageService)(store)(next)(action), up
\* to the await: next first; then, inside try, the type test, the whitelist,
\* the state read and the storage call; an exception inside try is caught
\* and the result of next returned.  A throwing next rejects the promise.
createMcardPersistenceMiddleware(storageService, store, next, action) ==
  LET after == Reduce(store.state, action)
      result == next.value
      read == <<"next">> \o ReadStateLog(store)
      state == ReadState(store, store.state, after)
  IN IF next.throws
     THEN Handled(action, <<"next">>, store.state, NullAction, "rejected",
                  NoResult)
     ELSE IF ~ShouldPersist(action, storageService)
     THEN Handled(action, <<"next">>, after, NullAction, "resolved", result)
     ELSE IF store.getState = "throws"
     THEN Caught(action, read, after, NullAction, result)
     ELSE IF storageService = "throws"
     THEN Caught(action, read \o <<"createAndStoreMCard">>, after,
                 actionWithState(action, state), result)
     ELSE Handled(action, read \o <<"createAndStoreMCard">>, after,
                  actionWithState(action, state), "pending", result)

\* the await ends: createAndStoreMCard has resolved, or it has rejected and
\* the rejection is caught; either way the result of next is returned
Resumed(h, storageService) ==
  IF storageService = "rejects"
  THEN Caught(h.action, h.log, h.state, h.stored, h.value)
  ELSE Handled(h.action, h.log, h.state, h.stored, "resolved", h.value)

\* -------------------------------------------------------------------- state
VARIABLES
  rows,        \* the engine's table
  now,         \* the wall clock
  hierarchy,   \* the configured HASH_ALGORITHM_HIERARCHY
  faulty,      \* whether the engine may fail with EngineFailure
  tracking,    \* whether promised is recorded
  last,        \* the most recent collection call and what it returned
  promised,    \* hashes returned by successful adds and not deleted since
  race,        \* per client of a shared engine: how far its add has got
  request,     \* the enumeration call a reader makes, and its arguments
  order,       \* the hashes of the rows in insertion order, kept for a reader
  mw           \* the Redux store and the run of the middleware's handler

\* what the collection's own calls leave alone
env == <<hierarchy, faulty, tracking, race, request, mw>>

vars ==
  <<rows, now, hierarchy, faulty, tracking, last, promised, race, request,
    order, mw>>

\* no enumeration call is made
NoRequest ==
  [op |-> "none", h |-> NoHash, n |-> 0, size |-> 0, strict |-> FALSE,
   q |-> <<>>]

\* the clients that run add against one engine
Clients == {1, 2}

\* a client that has not called add
Idle ==
  [pc |-> "idle", card |-> NullCard, found |-> FALSE,
   existing_card |-> NullCard, branch |-> "none", ok |-> TRUE,
   error |-> "none", result |-> NoHash]

NoOutcome == Returns({}, "none", NullCard)

\* no page asked for
NoPage == PageFailure("none", 0)

\* a record of one call: count0 is count() before it
Call(op, card, h, before, out) ==
  [op |-> op, card |-> card, hash |-> h, count0 |-> EngineCount(before),
   branch |-> out.branch, ok |-> out.ok, result |-> out.hash,
   error |-> out.error, page |-> NoPage]

\* a page as the caller sees it, its items named by their hashes
HashesOf(p) == [p EXCEPT !.items = [i \in DOMAIN p.items |-> p.items[i].hash]]

\* a record of one enumeration call and the page or the error it gave
Query(op, h, before, p) ==
  [Call(op, NullCard, h, before, NoOutcome) EXCEPT
     !.ok = p.ok, !.error = p.error, !.page = HashesOf(p)]

\* no action dispatched yet
NoRun == Handled(NullAction, <<>>, 0, NullAction, "none", NoResult)

\* the store, the middleware's setup and its latest run; history holds the
\* dispatches so far and calls the storage calls started, where both are
\* followed
Middleware(state, storageService, getState, next, run) ==
  [state |-> state, storageService |-> storageService, getState |-> getState,
   next |-> next, run |-> run, history |-> <<>>, calls |-> <<>>]

\* a store and a storage service as the middleware is set up with them
NoDispatch(state, storageService, getState) ==
  Middleware(state, storageService, getState,
             [throws |-> FALSE, value |-> "r1"], NoRun)

InitCommon ==
  /\ mw = NoDispatch(0, "missing", "function")
  /\ rows = {}
  /\ now = 0
  /\ last = [op |-> "init", card |-> NullCard, hash |-> NoHash, count0 |-> 0,
             branch |-> "none", ok |-> TRUE, result |-> NoHash,
             error |-> "none", page |-> NoPage]
  /\ promised = {}
  /\ race = [i \in Clients |-> Idle]
  /\ order = <<>>

Init ==
  /\ InitCommon
  /\ hierarchy = HASH_ALGORITHM_HIERARCHY
  /\ faulty = FALSE
  /\ tracking = FALSE
  /\ request = NoRequest

InputCards == {MCard(c, a, now) : c \in UserContents, a \in InputAlgs}

\* the hashes of the rows one add has written, in the order of its writes:
\* the event card is the last write of a call
WrittenInOrder(before, after) ==
  LET cards == {r \in after \ before : ~IsEvent(r.content)}
      events == {r \in after \ before : IsEvent(r.content)}
  IN (IF cards = {} THEN <<>> ELSE <<(CHOOSE r \in cards : TRUE).hash>>)
     \o (IF events = {} THEN <<>> ELSE <<(CHOOSE r \in events : TRUE).hash>>)

\* the insertion order after an add; it is kept only when a reader is there
\* to enumerate the store
OrderAfterAdd(before, after) ==
  IF request.op = "none" THEN order
  ELSE order \o WrittenInOrder(before, after)

\* the rows as the engine enumerates them
RowsInOrder ==
  [i \in DOMAIN order |-> CHOOSE r \in rows : r.hash = order[i]]

FaultPoints == IF faulty THEN 0..3 ELSE {0}

CallAdd ==
  \E card \in InputCards \cup {NullCard}, fault \in FaultPoints :
    LET out == add(card, rows, now, hierarchy, fault)
    IN /\ EngineCount(out.rows) <= MaxRows
       /\ rows' = out.rows
       /\ last' = Call("add", card, card.hash, rows, out)
       /\ promised' =
            IF out.ok /\ tracking
            THEN promised \cup
                   {[hash |-> out.hash,
                     bytes |-> out.bytes,
                     updated |-> FALSE]}
            ELSE promised
       /\ order' = OrderAfterAdd(rows, out.rows)
       /\ UNCHANGED <<now, env>>

\* the hashes callers pass to delete and update: those of the cards they
\* construct, and one that is never stored
AbsentHash == Digest("md5", DataContent("b1"))

KnownHashes == {c.hash : c \in InputCards} \cup {AbsentHash}

\* the contents callers pass to update
UpdateContents == {DataContent("b1")}

CallDelete ==
  \E h \in KnownHashes :
    /\ rows' = EngineDelete(rows, h)
    /\ last' = Call("delete", NullCard, h, rows, NoOutcome)
    /\ promised' = {p \in promised : p.hash # h}
    /\ order' = SelectSeq(order, LAMBDA x : x # h)
    /\ UNCHANGED <<now, env>>

\* the engine calls of update that may fail: engine.get (1), engine.update (2)
UpdateFaultPoints == IF faulty THEN 0..2 ELSE {0}

CallUpdate ==
  \E h \in KnownHashes, newContent \in UpdateContents,
     fault \in UpdateFaultPoints :
    LET u == update(h, newContent, rows, fault)
    IN /\ rows' = u.rows
       /\ last' = Call("update", NullCard, h, rows,
                       [NoOutcome EXCEPT !.ok = u.result, !.error = u.error])
       /\ promised' =
            {IF p.hash = h /\ u.result THEN [p EXCEPT !.updated = TRUE] ELSE p :
               p \in promised}
       /\ UNCHANGED <<now, env, order>>

CallClear ==
  /\ rows' = {}
  /\ last' = Call("clear", NullCard, NoHash, rows, NoOutcome)
  /\ promised' = {}
  /\ order' = <<>>
  /\ UNCHANGED <<now, env>>

Tick ==
  /\ now < MaxTime
  /\ now' = now + 1
  /\ UNCHANGED <<rows, env, last, promised, order>>

Next == CallAdd \/ CallDelete \/ CallUpdate \/ CallClear \/ Tick

Spec == Init /\ [][Next]_vars

\* the same program under a hierarchy that may be ill-configured
InitHier ==
  /\ InitCommon
  /\ hierarchy \in HierarchyCandidates
  /\ faulty = FALSE
  /\ tracking = FALSE
  /\ request = NoRequest

SpecHier == InitHier /\ [][Next]_vars

\* the same program with promised recorded
InitP8 ==
  /\ InitCommon
  /\ hierarchy = HASH_ALGORITHM_HIERARCHY
  /\ faulty = FALSE
  /\ tracking = TRUE
  /\ request = NoRequest

SpecP8 == InitP8 /\ [][Next]_vars

\* ingestion over an engine whose calls may fail with EngineFailure, under
\* any configured hierarchy: adds, clear and the clock
InitFault ==
  /\ InitCommon
  /\ hierarchy \in HierarchyCandidates
  /\ faulty = TRUE
  /\ tracking = FALSE
  /\ request = NoRequest

NextFault == CallAdd \/ CallClear \/ Tick

SpecFault == InitFault /\ [][NextFault]_vars

\* a caller constructs a card from raw content and, when that succeeds, adds
\* it to the collection
CallConstructAdd ==
  \E content \in RawInputs, hashFunction \in InputAlgs, node \in BOOLEAN :
    LET c == MCardConstructor(content, hashFunction, now, node)
        out == IF c.ok THEN add(c.card, rows, now, hierarchy, 0)
               ELSE Thrown(rows, "none", c.error)
    IN /\ EngineCount(out.rows) <= MaxRows
       /\ rows' = out.rows
       /\ last' = Call("construct", c.card, c.card.hash, rows, out)
       /\ order' = OrderAfterAdd(rows, out.rows)
       /\ UNCHANGED <<now, env, promised>>

NextConstruct == CallConstructAdd \/ CallClear \/ Tick

SpecConstruct == Init /\ [][NextConstruct]_vars

\* the Redux store with the persistence middleware installed: an action is
\* dispatched and the handler runs up to its await; the collection is not
\* touched.  The storage service and the store are those the middleware was
\* set up with; handlers are followed one at a time.
Dispatch ==
  \E action \in Actions, next \in Nexts :
    LET store == [state |-> mw.state, getState |-> mw.getState]
        h == createMcardPersistenceMiddleware(mw.storageService, store, next,
                                              action)
    IN /\ mw.run.outcome # "pending"
       /\ mw' = Middleware(h.state, mw.storageService, mw.getState, next, h)
       /\ UNCHANGED <<rows, now, last, promised, order, hierarchy, faulty,
                      tracking, race, request>>

\* the promise of createAndStoreMCard settles and the handler returns
Settle ==
  /\ mw.run.outcome = "pending"
  /\ mw' = [mw EXCEPT !.run = Resumed(mw.run, mw.storageService)]
  /\ UNCHANGED <<rows, now, last, promised, order, hierarchy, faulty,
                 tracking, race, request>>

InitMiddleware ==
  /\ rows = {}
  /\ now = 0
  /\ last = [op |-> "init", card |-> NullCard, hash |-> NoHash, count0 |-> 0,
             branch |-> "none", ok |-> TRUE, result |-> NoHash,
             error |-> "none", page |-> NoPage]
  /\ promised = {}
  /\ race = [i \in Clients |-> Idle]
  /\ order = <<>>
  /\ hierarchy = HASH_ALGORITHM_HIERARCHY
  /\ faulty = FALSE
  /\ tracking = FALSE
  /\ request = NoRequest
  /\ mw \in {NoDispatch(state, storageService, getState) :
              state \in StoreStates, storageService \in StorageServices,
              getState \in GetStates}

NextMiddleware == Dispatch \/ Settle

SpecMiddleware == InitMiddleware /\ [][NextMiddleware]_vars

\* dispatches made one after another without awaiting the promise a handler
\* returns: at most as many as the store has states to tell them apart
MaxDispatch == MaxState + 1

OverlapActions ==
  {[null |-> FALSE, type |-> type, payload |-> "content", meta |-> NoMeta] :
     type \in {"todo/addTask", "ADD_CARD", "TEST_ACTION"}}

OverlapNexts ==
  {[throws |-> TRUE, value |-> NoResult], [throws |-> FALSE, value |-> "r1"]}

\* an entry of history is one dispatch as the caller made it: place is its
\* position among the dispatches, reduced tells whether next(action)
\* returned.  An entry of calls is one call of createAndStoreMCard: what it
\* was handed, the dispatch it belongs to, and whether its promise is pending.
\* an action is dispatched while storage calls of earlier dispatches may be
\* pending: the handler runs to its await within the dispatch
DispatchOverlapped ==
  \E action \in OverlapActions, next \in OverlapNexts :
    LET store == [state |-> mw.state, getState |-> mw.getState]
        h == createMcardPersistenceMiddleware(mw.storageService, store, next,
                                              action)
        place == Len(mw.history) + 1
        called == \E i \in DOMAIN h.log : h.log[i] = "createAndStoreMCard"
    IN /\ Len(mw.history) < MaxDispatch
       /\ mw' = [Middleware(h.state, mw.storageService, mw.getState, next, h)
                   EXCEPT
                   !.history = Append(mw.history,
                                      [action |-> action,
                                       reduced |-> ~next.throws,
                                       place |-> place]),
                   !.calls = IF called
                             THEN Append(mw.calls,
                                         [stored |-> h.stored,
                                          place |-> place,
                                          pending |-> h.outcome = "pending"])
                             ELSE mw.calls]
       /\ UNCHANGED <<rows, now, last, promised, order, hierarchy, faulty,
                      tracking, race, request>>

\* the promise of one of the pending storage calls settles, in any order
SettleOverlapped ==
  \E i \in DOMAIN mw.calls :
    /\ mw.calls[i].pending
    /\ mw' = [mw EXCEPT !.calls[i].pending = FALSE]
    /\ UNCHANGED <<rows, now, last, promised, order, hierarchy, faulty,
                   tracking, race, request>>

InitOverlap ==
  /\ rows = {}
  /\ now = 0
  /\ last = [op |-> "init", card |-> NullCard, hash |-> NoHash, count0 |-> 0,
             branch |-> "none", ok |-> TRUE, result |-> NoHash,
             error |-> "none", page |-> NoPage]
  /\ promised = {}
  /\ race = [i \in Clients |-> Idle]
  /\ order = <<>>
  /\ hierarchy = HASH_ALGORITHM_HIERARCHY
  /\ faulty = FALSE
  /\ tracking = FALSE
  /\ request = NoRequest
  /\ mw \in {NoDispatch(0, storageService, getState) :
              storageService \in {"resolves", "rejects", "throws"},
              getState \in {"function", "absent"}}

NextOverlap == DispatchOverlapped \/ SettleOverlapped

SpecOverlap == InitOverlap /\ [][NextOverlap]_vars

\* a caller reconstructs a card from what it takes to be a persisted row
RowContents ==
  RawInputs \cup {RawInput("buffer", "b1"), RawInput("buffer", "b3")}

RowHashes == KnownHashes \cup {NoHash}

RowGTimes == {stamp_now(alg, 0) : alg \in Algs} \cup {EmptyGTime}

CallReconstruct ==
  \E content \in RowContents, hash_value \in RowHashes,
     g_time_str \in RowGTimes, node \in BOOLEAN :
    LET c == MCardFromDataConstructor(content, hash_value, g_time_str, node)
        out == IF c.ok THEN Returns(rows, "none", c.card)
               ELSE Thrown(rows, "none", c.error)
    IN /\ last' = Call("reconstruct", c.card, hash_value, rows, out)
       /\ UNCHANGED <<rows, now, env, promised, order>>

\* a caller constructs a card under an algorithm name of its choosing
CallNew ==
  \E content \in RowContents, hashFunction \in AlgNames,
     forceHashAlgorithm \in AlgNames, node \in BOOLEAN :
    LET c == MCardConstructorOptions(content, hashFunction,
                                     forceHashAlgorithm, now, node)
        out == IF c.ok THEN Returns(rows, "none", c.card)
               ELSE Thrown(rows, "none", c.error)
    IN /\ last' = Call("new", c.card, c.card.hash, rows, out)
       /\ UNCHANGED <<rows, now, env, promised, order>>

NextReconstruct == CallReconstruct \/ CallNew \/ Tick

SpecReconstruct == Init /\ [][NextReconstruct]_vars

\* ingestion and update over an engine whose calls may fail, under the
\* configured hierarchy
InitEngineFailure ==
  /\ InitCommon
  /\ hierarchy = HASH_ALGORITHM_HIERARCHY
  /\ faulty = TRUE
  /\ tracking = FALSE
  /\ request = NoRequest

NextEngineFailure == CallAdd \/ CallUpdate \/ CallClear

SpecEngineFailure == InitEngineFailure /\ [][NextEngineFailure]_vars

\* two clients of one engine, each running add once; the engine calls are
\* the points where the other client may run.  The client's engine.get:
RaceLookup(i) ==
  \E card \in InputCards :
    LET got == Lookup(rows, card)
    IN /\ race[i].pc = "idle"
       /\ race' = [race EXCEPT ![i] =
                     [Idle EXCEPT !.pc = "looked", !.card = card,
                                  !.found = got.found,
                                  !.existing_card = got.existing_card]]
       /\ UNCHANGED mw
       /\ UNCHANGED <<rows, now, hierarchy, faulty, tracking, last, promised,
                       request, order>>

\* the rest of the client's add, on what its lookup answered
RaceWrite(i) ==
  LET c == race[i]
      out == addAfterLookup(c.card, c.found, c.existing_card, rows, now,
                            hierarchy, 0)
  IN /\ c.pc = "looked"
     /\ EngineCount(out.rows) <= MaxRows
     /\ rows' = out.rows
     /\ race' = [race EXCEPT ![i] =
                   [c EXCEPT !.pc = "done", !.branch = out.branch,
                             !.ok = out.ok, !.error = out.error,
                             !.result = out.hash]]
     /\ last' = Call("add", c.card, c.card.hash, rows, out)
     /\ order' = OrderAfterAdd(rows, out.rows)
     /\ UNCHANGED <<now, hierarchy, faulty, tracking, promised, request, mw>>

NextRace ==
  \/ \E i \in Clients : RaceLookup(i)
  \/ \E i \in Clients : RaceWrite(i)
  \/ Tick

SpecRace == Init /\ [][NextRace]_vars

\* enumeration of the store: a reader makes one kind of call with one set
\* of arguments, while add and clear change the rows
SearchHashes == KnownHashes \cup {NoHash}

Requests ==
  {[op |-> "get_page", h |-> NoHash, n |-> n, size |-> size, strict |-> FALSE,
    q |-> <<>>] :
     n \in PageNumbers, size \in PageSizes}
  \cup
  {[op |-> "get_all", h |-> NoHash, n |-> n, size |-> size, strict |-> strict,
    q |-> <<>>] :
     n \in PageNumbers, size \in PageSizes, strict \in BOOLEAN}
  \cup
  {[op |-> "search_by_hash", h |-> h, n |-> n, size |-> size, strict |-> FALSE,
    q |-> <<>>] :
     h \in SearchHashes, n \in 0..1, size \in PageSizes}

InitPage ==
  /\ InitCommon
  /\ hierarchy = HASH_ALGORITHM_HIERARCHY
  /\ faulty = FALSE
  /\ tracking = FALSE
  /\ request \in Requests

CallGetPage ==
  LET e == RowsInOrder
  IN
    /\ request.op = "get_page"
    /\ last' = Query("get_page", NoHash, rows,
                     get_page(request.n, request.size, e, request.strict))
    /\ UNCHANGED <<rows, now, promised, env, order>>

CallGetAll ==
  LET e == RowsInOrder
  IN
    /\ request.op = "get_all"
    /\ last' = Query("get_all", NoHash, rows,
                     get_all(request.n, request.size, e, request.strict))
    /\ UNCHANGED <<rows, now, promised, env, order>>

CallSearchByHash ==
  LET e == RowsInOrder
  IN
    /\ request.op = "search_by_hash"
    /\ last' = Query("search_by_hash", request.h, rows,
                     search_by_hash(request.h, request.n, request.size, e,
                                    request.strict))
    /\ UNCHANGED <<rows, now, promised, env, order>>

NextPage ==
  \/ CallAdd
  \/ CallClear
  \/ CallGetPage
  \/ CallGetAll
  \/ CallSearchByHash

SpecPage == InitPage /\ [][NextPage]_vars

\* a reader searches the store for a string, with the default page
SearchStrings == {<<>>, <<"X">>, <<"1">>, <<"X", "3">>, <<"Z">>}

SearchRequests ==
  {[op |-> "search_by_string", h |-> NoHash, n |-> 1,
    size |-> DEFAULT_PAGE_SIZE, strict |-> FALSE, q |-> q] :
     q \in SearchStrings}

InitSearch ==
  /\ InitCommon
  /\ hierarchy = HASH_ALGORITHM_HIERARCHY
  /\ faulty = FALSE
  /\ tracking = FALSE
  /\ request \in SearchRequests

CallSearchByString ==
  LET e == RowsInOrder
  IN
    /\ request.op = "search_by_string"
    /\ last' = Query("search_by_string", NoHash, rows,
                     search_by_string(request.q, request.n, request.size, e))
    /\ UNCHANGED <<rows, now, promised, env, order>>

NextSearch == CallAdd \/ CallClear \/ CallSearchByString

SpecSearch == InitSearch /\ [][NextSearch]_vars

\* ------------------------------------------------- content type detection
\* a value that is no Buffer (null, a string)
NotABuffer == <<-1>>

\* the signature table in the order Object.entries walks it
Signatures ==
  << <<"image/jpeg", <<255, 216, 255>> >>,
     <<"image/png", <<137, 80, 78, 71>> >>,
     <<"image/gif", <<71, 73, 70, 56>> >>,
     <<"image/webp", <<82, 73, 70, 70>> >>,
     <<"image/bmp", <<66, 77>> >>,
     <<"application/pdf", <<37, 80, 68, 70>> >>,
     <<"audio/mpeg", <<73, 68, 51>> >>,
     <<"audio/mpeg", <<255, 251>> >>,
     <<"audio/wav", <<82, 73, 70, 70>> >>,
     <<"video/mp4", <<0, 0, 0, 24, 102, 116, 121, 112>> >>,
     <<"video/webm", <<26, 69, 223, 163>> >>,
     <<"application/zip", <<80, 75, 3, 4>> >>,
     <<"application/gzip", <<31, 139>> >> >>

\* signature.every((byte, i) => data[i] === byte)
StartsWith(data, signature) ==
  /\ Len(signature) <= Len(data)
  /\ \A i \in DOMAIN signature : data[i] = signature[i]

\* the filter of isTextContent: ASCII printable, tab, LF, CR
IsPrintable(byte) == (byte >= 32 /\ byte <= 126) \/ byte \in {9, 10, 13}

\* a slip: text only when every byte passes the filter
isTextContent_AllPrintable(data) ==
  IF Len(data) = 0 THEN TRUE
  ELSE IF \E i \in DOMAIN data : data[i] = 0 THEN FALSE
  ELSE \A i \in DOMAIN data : IsPrintable(data[i])

\* isTextContent: no NUL byte and more than nine tenths of the bytes pass
isTextContent(data) ==
  IF Len(data) = 0 THEN TRUE
  ELSE IF \E i \in DOMAIN data : data[i] = 0 THEN FALSE
  ELSE LET printableChars == Len(SelectSeq(data, IsPrintable))
       IN 10 * printableChars > 9 * Len(data)

\* the place of the first signature of the table data starts with, or 0
FirstSignature(data) ==
  LET hits == {k \in DOMAIN Signatures : StartsWith(data, Signatures[k][2])}
  IN IF hits = {} THEN 0 ELSE CHOOSE k \in hits : \A j \in hits : k <= j

\* ContentTypeInterpreter.detectType
detectType(data) ==
  IF data = NotABuffer THEN "text/plain"
  ELSE IF Len(data) < 4 THEN "application/octet-stream"
  ELSE IF FirstSignature(data) # 0 THEN Signatures[FirstSignature(data)][1]
  ELSE IF isTextContent(data) THEN "text/plain"
  ELSE "application/octet-stream"

\* the longest run of one byte appended to a prefix
MaxFill == 7

\* how buffers may begin: text, the signatures, parts of signatures, and
\* bytes outside the printable range
Prefixes ==
  {<<>>, <<65>>, <<66, 77>>, <<65, 66, 67>>, <<65, 66, 67, 68>>,
   <<9, 10, 13, 32>>, <<255, 216, 255, 224>>, <<137, 80, 78, 71>>,
   <<71, 73, 70, 56>>, <<82, 73, 70, 70>>, <<66, 77, 65, 65>>,
   <<37, 80, 68, 70>>, <<73, 68, 51, 65>>, <<255, 251, 65, 65>>,
   <<0, 0, 0, 24>>, <<0, 0, 0, 24, 102, 116, 121, 112>>,
   <<26, 69, 223, 163>>, <<80, 75, 3, 4>>, <<31, 139, 8, 65>>,
   <<128, 65, 65, 65>>, <<127, 65, 65, 65>>, <<0, 65, 65, 65>>}

\* the values detectType is called with
Datas ==
  {p \o [i \in 1..k |-> 65] \o [i \in 1..m |-> 128] :
     p \in Prefixes, k \in 0..MaxFill, m \in 0..1}
  \cup {NotABuffer}

InitDetect ==
  /\ InitCommon
  /\ hierarchy = HASH_ALGORITHM_HIERARCHY
  /\ faulty = FALSE
  /\ tracking = FALSE
  /\ request \in {[NoRequest EXCEPT !.op = "detectType", !.q = data] :
                    data \in Datas}

\* one classification: the type it gave is kept as the branch of the record
CallDetect ==
  /\ request.op = "detectType"
  /\ last' = [Call("detectType", NullCard, NoHash, {}, NoOutcome) EXCEPT
                !.branch = detectType(request.q)]
  /\ UNCHANGED <<rows, now, promised, env, order>>

NextDetect == CallDetect \/ Tick

SpecDetect == InitDetect /\ [][NextDetect]_vars

TypeOK == EngineCount(rows) <= MaxRows

\* ---------------------------------------------------------------- the cases
\* what add finds when it looks the card up
IsAbsent(rs, card) == ~EngineFound(rs, card.hash)

IsDuplicate(rs, card) ==
  /\ EngineFound(rs, card.hash)
  /\ EngineGet(rs, card.hash).content = card.content

IsCollision(rs, card) ==
  /\ EngineFound(rs, card.hash)
  /\ EngineGet(rs, card.hash).content # card.content

\* the event card the duplicate branch builds for the stored card
DuplicateEventOf(rs, card, t) ==
  MCard(generateDuplicationEvent(EngineGet(rs, card.hash), t), DEFAULT, t)

\* the rows a call added
Written(before, after) == after \ before

\* ------------------------------------------------------------------ claims
\* C1: insert branch.  When add(card) finds no stored card under card.hash it
\* writes exactly one row, the card itself keyed by card.hash, count() grows
\* by exactly 1, no event card is written, and card.hash is returned.
C1_InsertBranch ==
  \A card \in InputCards :
    LET out == add(card, rows, now, hierarchy, 0)
    IN IsAbsent(rows, card) =>
         /\ out.ok
         /\ out.branch = "insert"
         /\ Written(rows, out.rows) = {Row(card)}
         /\ rows \subseteq out.rows
         /\ EngineCount(out.rows) = EngineCount(rows) + 1
         /\ \A r \in Written(rows, out.rows) : ~IsEvent(r.content)
         /\ out.hash = card.hash

\* an add has just taken the insert branch and stored its card
C1_Witness ==
  /\ last.op = "add"
  /\ last.branch = "insert"
  /\ last.ok
  /\ last.result = last.card.hash
  /\ Row(last.card) \in rows
  /\ EngineCount(rows) = last.count0 + 1

UpgradedCardOf(card, hier, t) ==
  MCard(card.content, hier[card.hash_algorithm], t)

CollisionEventOf(rs, card, hier, t) ==
  MCard(generateCollisionEvent(card, EngineGet(rs, card.hash),
                               hier[card.hash_algorithm], t),
        DEFAULT, t)

C4_AsStated ==
  \A card \in InputCards :
    LET out == add(card, rows, now, hierarchy, 0)
        up == UpgradedCardOf(card, hierarchy, now)
        ev == CollisionEventOf(rows, card, hierarchy, now)
    IN (IsCollision(rows, card) /\ card.hash_algorithm \in DOMAIN hierarchy) =>
         /\ out.ok
         /\ Written(rows, out.rows) = {Row(up), Row(ev)}
         /\ EngineCount(out.rows) = EngineCount(rows) + 2
         /\ out.hash = ev.hash

\* C4 amended: in the collision branch with a stronger algorithm available,
\* if neither the upgraded card's hash nor the event card's hash is stored
\* yet, the store gains exactly two rows (the incoming content digested under
\* the next algorithm of the hierarchy, sha384 with a 48-byte digest for
\* sha256, and a collision event card) and add returns the event card's hash,
\* so a one-card store ends with count() = 3; if the upgraded card's hash is
\* already stored, add fails with HashConflict and writes nothing.
C4_CollisionBranch ==
  \A card \in InputCards :
    LET out == add(card, rows, now, hierarchy, 0)
        up == UpgradedCardOf(card, hierarchy, now)
        ev == CollisionEventOf(rows, card, hierarchy, now)
    IN (IsCollision(rows, card) /\ card.hash_algorithm \in DOMAIN hierarchy) =>
         /\ out.branch = "collision"
         /\ (~HasHash(rows, up.hash) /\ ~HasHash(rows, ev.hash)) =>
              /\ out.ok
              /\ Written(rows, out.rows) = {Row(up), Row(ev)}
              /\ rows \subseteq out.rows
              /\ EngineCount(out.rows) = EngineCount(rows) + 2
              /\ up.content = card.content
              /\ up.hash = Digest(up.hash_algorithm, card.content)
              /\ card.hash_algorithm = "sha256" =>
                   /\ up.hash_algorithm = "sha384"
                   /\ HashLength(up.hash_algorithm) = 48
              /\ ev.content.kind = "collision"
              /\ ev.hash_algorithm = DEFAULT
              /\ out.hash = ev.hash
              /\ EngineCount(rows) = 1 => EngineCount(out.rows) = 3
         /\ HasHash(rows, up.hash) =>
              /\ out.error = "HashConflict"
              /\ out.rows = rows

\* an add to a one-card store has just taken the collision branch: the store
\* holds the original, the sha384 card of the incoming bytes and the event
C4_Witness ==
  /\ last.op = "add"
  /\ last.branch = "collision"
  /\ last.ok
  /\ last.count0 = 1
  /\ EngineCount(rows) = 3
  /\ \E r \in rows : /\ r.content = last.card.content
                     /\ r.g_time = stamp_now("sha384", now)
                     /\ r.hash = Digest("sha384", last.card.content)
  /\ \E r \in rows : r.hash = last.result /\ r.content.kind = "collision"

\* C5 (P5): whenever add is asked to store a card whose hash is bound to
\* different bytes, any upgraded card it stores has an algorithm different
\* from the incoming card's and a strictly longer digest; when the hierarchy
\* names an equal-or-shorter algorithm, add fails with UpgradeFailed before
\* anything is written.
C5_UpgradeStrict ==
  \A card \in InputCards :
    LET out == add(card, rows, now, hierarchy, 0)
        cur == card.hash_algorithm
    IN IsCollision(rows, card) =>
         /\ \A r \in Written(rows, out.rows) :
              ~IsEvent(r.content) =>
                /\ get_hash_function(r.g_time) # cur
                /\ HashLength(get_hash_function(r.g_time)) > HashLength(cur)
         /\ (cur \in DOMAIN hierarchy
             /\ HashLength(hierarchy[cur]) <= HashLength(cur)) =>
              /\ ~out.ok
              /\ out.error = "UpgradeFailed"
              /\ out.rows = rows

\* a collision has just been rejected because the configured successor has a
\* different name but no longer digest
C5_Witness ==
  /\ last.op = "add"
  /\ last.branch = "collision"
  /\ last.error = "UpgradeFailed"
  /\ hierarchy[last.card.hash_algorithm] # last.card.hash_algorithm
  /\ EngineCount(rows) = last.count0

C7_AsStated ==
  \A p \in promised :
    /\ EngineFound(rows, p.hash)
    /\ EngineGet(rows, p.hash).content = p.bytes

\* C7 amended: for every add that returned hash h, as long as h has not been
\* deleted or updated and the store not cleared, get(h) returns a card with
\* the bytes stored under h by that add, whatever other calls happened since.
C7_GetAfterAdd ==
  \A p \in promised :
    ~p.updated =>
      /\ EngineFound(rows, p.hash)
      /\ EngineGet(rows, p.hash).content = p.bytes

\* a card added earlier is still readable after an update of another card
C7_Witness ==
  /\ last.op = "update"
  /\ last.ok
  /\ \E p \in promised :
       /\ ~p.updated
       /\ p.hash # last.hash
       /\ EngineGet(rows, p.hash).content = p.bytes
  /\ \E q \in promised : q.updated /\ q.hash = last.hash

\* C8: in every reachable state no two stored rows share a hash, and an
\* engine add of a card whose hash is present fails (HashConflict) and leaves
\* the rows unchanged.
C8_UniqueHash ==
  /\ \A r1 \in rows, r2 \in rows : r1.hash = r2.hash => r1 = r2
  /\ \A card \in InputCards :
       HasHash(rows, card.hash) =>
         /\ ~EngineAdd(rows, card).ok
         /\ EngineAdd(rows, card).rows = rows
  /\ \A card \in InputCards :
       IsDuplicate(rows, card) =>
         LET ev == DuplicateEventOf(rows, card, now)
         IN HasHash(rows, ev.hash) =>
              /\ ~EngineAdd(rows, ev).ok
              /\ EngineAdd(rows, ev).rows = rows

\* an add has just been refused by the engine with HashConflict, the rows
\* being what they were
C8_Witness ==
  /\ last.op = "add"
  /\ ~last.ok
  /\ last.error = "HashConflict"
  /\ EngineCount(rows) = last.count0
  /\ HasHash(rows, last.card.hash)

\* C9: a call of add that ends in an error (null card, NoStrongerAlgorithm,
\* UpgradeFailed, HashConflict, or EngineFailure at any engine call) has
\* written no event card; the only row it may have added is the upgraded
\* content card of the collision branch.
C9_NoEventOnError ==
  \A card \in InputCards \cup {NullCard}, fault \in FaultPoints :
    LET out == add(card, rows, now, hierarchy, fault)
    IN ~out.ok =>
         /\ rows \subseteq out.rows
         /\ \A r \in Written(rows, out.rows) :
              /\ ~IsEvent(r.content)
              /\ IsCollision(rows, card)
              /\ r = Row(UpgradedCardOf(card, hierarchy, now))

\* an add has just failed at its last engine call: the upgraded card is
\* stored and the event card it could not write is not
C9_Witness ==
  /\ last.op = "add"
  /\ ~last.ok
  /\ last.branch = "collision"
  /\ last.error = "EngineFailure"
  /\ EngineCount(rows) = last.count0 + 1
  /\ Row(UpgradedCardOf(last.card, hierarchy, now)) \in rows
  /\ \A r \in rows : ~IsEvent(r.content)

\* C10: a collision for a card whose algorithm has no successor in the
\* hierarchy (sha512) makes add fail with NoStrongerAlgorithm, the store being
\* exactly as before the call.
C10_NoStrongerAlgorithm ==
  \A card \in InputCards :
    LET out == add(card, rows, now, hierarchy, 0)
    IN (IsCollision(rows, card) /\ card.hash_algorithm = "sha512") =>
         /\ ~out.ok
         /\ out.error = "NoStrongerAlgorithm"
         /\ out.rows = rows

\* a sha512 card has just collided and been refused, the rows as before
C10_Witness ==
  /\ last.op = "add"
  /\ last.card.hash_algorithm = "sha512"
  /\ last.branch = "collision"
  /\ last.error = "NoStrongerAlgorithm"
  /\ EngineCount(rows) = last.count0
  /\ \A r \in rows : r.hash.alg = "sha512" => ~IsEvent(r.content)

\* the stored collision-event cards, and the upgraded card each one records
CollisionEvents(rs) == {r \in rs : r.content.kind = "collision"}

UpgradedHashOf(eventRow) == eventRow.content.hashes[2]

\* a stored content card left by the collision branch with no event for it
Unrecorded(rs) ==
  {r \in rs : /\ ~IsEvent(r.content)
              /\ r.hash.alg \notin InputAlgs
              /\ \A e \in CollisionEvents(rs) : UpgradedHashOf(e) # r.hash}

\* C11: within one collision-branch ingestion the engine writes the upgraded
\* card before the event card: in every reachable state, failures between
\* the two writes included, a stored collision-event card has the upgraded
\* card it records stored as well.
C11_EventAfterUpgraded ==
  /\ \A e \in CollisionEvents(rows) : HasHash(rows, UpgradedHashOf(e))
  /\ \A card \in InputCards, fault \in FaultPoints :
       LET out == add(card, rows, now, hierarchy, fault)
       IN \A e \in CollisionEvents(out.rows) :
            HasHash(out.rows, UpgradedHashOf(e))

\* a collision has just been ingested: its event card and the upgraded card
\* the event records are both stored
C11_Witness ==
  /\ last.op = "add"
  /\ last.branch = "collision"
  /\ last.ok
  /\ \E e \in CollisionEvents(rows) :
       /\ e.hash = last.result
       /\ UpgradedHashOf(e) =
            Digest(hierarchy[last.card.hash_algorithm], last.card.content)
       /\ HasHash(rows, UpgradedHashOf(e))

\* the store invariants: unique hash keys, and for every stored card the
\* algorithm of its g_time is the algorithm of its hash
StoreInvariants(rs) ==
  /\ \A r1 \in rs, r2 \in rs : r1.hash = r2.hash => r1 = r2
  /\ \A r \in rs :
       /\ get_hash_function(r.g_time) = r.hash.alg
       /\ EngineGet(rs, r.hash).hash_algorithm = r.hash.alg

\* C12: a store left by a collision-branch ingestion that stopped between
\* writing the upgraded card and writing the event card (upgraded card
\* present, no event card) satisfies the store invariants, and later calls
\* behave on it as on any state: get returns each stored row, add of an
\* absent card inserts it, add of a stored card reports the duplicate or
\* fails with HashConflict, and the store invariants hold after the add.
C12_CancelledCollision ==
  Unrecorded(rows) # {} =>
    /\ StoreInvariants(rows)
    /\ \A r \in rows :
         /\ EngineFound(rows, r.hash)
         /\ Row(EngineGet(rows, r.hash)) = r
    /\ \A card \in InputCards :
         LET out == add(card, rows, now, hierarchy, 0)
         IN /\ StoreInvariants(out.rows)
            /\ IsAbsent(rows, card) =>
                 /\ out.ok
                 /\ out.hash = card.hash
                 /\ out.rows = rows \cup {Row(card)}
            /\ IsDuplicate(rows, card) =>
                 \/ out.ok /\ out.rows = rows \cup {Row(DuplicateEventOf(rows, card, now))}
                 \/ out.error = "HashConflict" /\ out.rows = rows

\* after an ingestion stopped between its two writes, a later add has
\* succeeded on the store that holds the upgraded card without its event
C12_Witness ==
  /\ last.op = "add"
  /\ last.ok
  /\ last.branch = "insert"
  /\ Unrecorded(rows) # {}
  /\ Row(last.card) \in rows
  /\ Row(last.card) \notin Unrecorded(rows)

\* C13 (P6 / I3): every card returned from get, stored as a fresh card, as
\* an upgraded card or as an event card and reconstructed from its row, has a
\* g_time whose algorithm field equals the card's hash_algorithm; so has
\* every card the constructor builds.
C13_GTimeAlgorithm ==
  /\ \A r \in rows :
       LET got == EngineGet(rows, r.hash)
       IN /\ got.hash_algorithm = get_hash_function(got.g_time)
          /\ got.hash_algorithm \in Algs
  /\ \A card \in InputCards :
       card.hash_algorithm = get_hash_function(card.g_time)

\* a fresh sha512 card, an upgraded card and an event card are stored and
\* get returns each with the algorithm of its g_time
C13_Witness ==
  /\ \E r \in rows : r.content.kind = "data" /\ r.hash.alg = "sha512"
  /\ \E r \in rows : r.content.kind = "data" /\ r.hash.alg = "sha384"
  /\ \E r \in rows : IsEvent(r.content)
  /\ \A r \in rows :
       EngineGet(rows, r.hash).hash_algorithm = r.hash.alg

\* C14: add never changes or removes a stored row: whatever branch it takes
\* and whether it succeeds or fails, every row present before the call is
\* present and identical after it; the collision branch leaves the card it
\* collided with in place under its hash.
C14_AddKeepsRows ==
  \A card \in InputCards \cup {NullCard} :
    LET out == add(card, rows, now, hierarchy, 0)
    IN /\ rows \subseteq out.rows
       /\ \A r \in rows :
            /\ EngineFound(out.rows, r.hash)
            /\ Row(EngineGet(out.rows, r.hash)) = r
       /\ (card # NullCard /\ IsCollision(rows, card)) =>
            EngineGet(out.rows, card.hash) = EngineGet(rows, card.hash)

\* a collision has just been ingested and the card it collided with is
\* still stored under the incoming card's hash, with its own bytes
C14_Witness ==
  /\ last.op = "add"
  /\ last.branch = "collision"
  /\ last.ok
  /\ EngineCount(rows) = last.count0 + 2
  /\ EngineFound(rows, last.card.hash)
  /\ EngineGet(rows, last.card.hash).content # last.card.content

\* the least number of pages of the given size that hold total_items items
IsPageCount(pages, total_items, size) ==
  IF total_items > 0
  THEN pages * size >= total_items /\ (pages - 1) * size < total_items
  ELSE pages = 0

\* C15 (P7): every Page returned by get_page(n, size) has total_pages =
\* ceil(total_items/size) when total_items > 0 and 0 otherwise, has_next
\* exactly when page_number < total_pages and has_previous exactly when
\* page_number > 1.
C15_PageFields ==
  LET e == RowsInOrder IN
    LET p == get_page(request.n, request.size, e, request.strict)
    IN (request.op = "get_page" /\ p.ok) =>
         /\ p.total_items = EngineCount(rows)
         /\ p.page_number = request.n
         /\ IsPageCount(p.total_pages, p.total_items, request.size)
         /\ p.has_next <=> p.page_number < p.total_pages
         /\ p.has_previous <=> p.page_number > 1

\* get_page(1, 2) has just returned the first of the two pages of three cards
C15_Witness ==
  /\ last.op = "get_page"
  /\ last.ok
  /\ EngineCount(rows) = 3
  /\ last.page.total_items = 3
  /\ last.page.page_size = 2
  /\ last.page.page_number = 1
  /\ last.page.total_pages = 2
  /\ last.page.has_next
  /\ ~last.page.has_previous
  /\ Len(last.page.items) = 2

\* C16 as stated: the Page get_all(n, size) returns has total_pages
\* recomputed as ceil(total_items/size), 0 when total_items is 0, exactly as
\* get_page does.
C16_AsStated ==
  LET e == RowsInOrder IN
    LET p == get_all(request.n, request.size, e, request.strict)
        q == get_page(request.n, request.size, e, request.strict)
    IN (request.op = "get_all" /\ p.ok /\ request.n >= 1 /\ request.size >= 1) =>
         /\ IsPageCount(p.total_pages, p.total_items, request.size)
         /\ q.ok => p.total_pages = q.total_pages

\* C17 as stated: get_page(n, size) and get_all(n, size) both fail with
\* InvalidArgument whenever n < 1 or size < 1, without any engine call.
C17_AsStated ==
  LET e == RowsInOrder IN
    LET p == IF request.op = "get_all"
             THEN get_all(request.n, request.size, e, request.strict)
             ELSE get_page(request.n, request.size, e, request.strict)
    IN (/\ request.op \in {"get_page", "get_all"}
        /\ (request.n < 1 \/ request.size < 1)) =>
          /\ ~p.ok
          /\ p.error = "InvalidArgument"
          /\ p.engine_calls = 0

\* C18: get_page(n, size) with n >= 1 and size >= 1 fails with PageOutOfRange
\* exactly when total_items > 0 and n > ceil(total_items/size); on an empty
\* store every page n >= 1 is an empty page, not an error.
C18_PageOutOfRange ==
  LET e == RowsInOrder IN
    LET p == get_page(request.n, request.size, e, request.strict)
        total_items == EngineCount(rows)
        beyond == total_items > 0 /\ (request.n - 1) * request.size >= total_items
    IN (request.op = "get_page" /\ request.n >= 1 /\ request.size >= 1) =>
         /\ ~p.ok <=> beyond
         /\ ~p.ok => p.error = "PageOutOfRange"
         /\ total_items = 0 =>
              /\ p.ok
              /\ p.items = <<>>
              /\ p.total_items = 0

\* get_page has just refused a page beyond the last one of a non-empty store
C18_Witness ==
  /\ last.op = "get_page"
  /\ ~last.ok
  /\ last.error = "PageOutOfRange"
  /\ EngineCount(rows) > 0
  /\ request.n >= 1
  /\ request.size >= 1
  /\ (request.n - 1) * request.size >= EngineCount(rows)

\* C19 as stated: search_by_hash(h, 1, size) with non-empty h returns a Page
\* whose items are exactly the stored cards with hash h, one when such a card
\* is stored and none otherwise, whatever the store holds; an empty h fails
\* with InvalidArgument.
C19_AsStated ==
  LET e == RowsInOrder IN
    LET p == search_by_hash(request.h, request.n, request.size, e,
                            request.strict)
    IN (/\ request.op = "search_by_hash"
        /\ request.n = 1
        /\ request.size >= 1) =>
          IF request.h = NoHash
          THEN ~p.ok /\ p.error = "InvalidArgument"
          ELSE /\ p.ok
               /\ \A i \in DOMAIN p.items : p.items[i].hash = request.h
               /\ Len(p.items) = IF HasHash(rows, request.h) THEN 1 ELSE 0

\* C20: update(h, new_content) returns false, calls no engine.update and
\* leaves the store unchanged when no card with hash h is stored; when h is
\* stored it calls engine.update, after which h holds the new bytes and the
\* keys, the number of rows and every other row are as before.
C20_UpdateFrame ==
  \A h \in KnownHashes, newContent \in UpdateContents :
    LET u == update(h, newContent, rows, 0)
    IN /\ ~EngineFound(rows, h) =>
            /\ ~u.result
            /\ u.engine_updates = 0
            /\ u.rows = rows
       /\ EngineFound(rows, h) =>
            /\ u.result
            /\ u.engine_updates = 1
            /\ EngineFound(u.rows, h)
            /\ EngineGet(u.rows, h).content = newContent
            /\ EngineGet(u.rows, h).g_time = EngineGet(rows, h).g_time
            /\ {r.hash : r \in u.rows} = {r.hash : r \in rows}
            /\ EngineCount(u.rows) = EngineCount(rows)
            /\ \A r \in rows : r.hash # h => r \in u.rows

\* update has just replaced the bytes of a stored card: its row holds bytes
\* other than those its hash was digested from, next to an untouched row
C20_Witness ==
  /\ last.op = "update"
  /\ last.ok
  /\ EngineCount(rows) = last.count0
  /\ \E r \in rows : /\ r.hash = last.hash
                     /\ r.content \in UpdateContents
                     /\ Canon(r.content) # r.hash.of
  /\ \E r \in rows : r.hash # last.hash

\* C21 as stated: an EngineFailure the engine raises during a collection
\* operation reaches the caller as that error; no operation turns it into a
\* normal return value.  Checked for the lookup of add and for the two engine
\* calls of update.
C21_AsStated ==
  /\ \A card \in InputCards :
       LET out == add(card, rows, now, hierarchy, 1)
       IN ~out.ok /\ out.error = "EngineFailure"
  /\ \A h \in KnownHashes, newContent \in UpdateContents, fault \in 1..2 :
       LET u == update(h, newContent, rows, fault)
       IN u.raised => ~u.ok /\ u.error = "EngineFailure"

\* the cards one add(card) hands to engine.add, by the branch it takes
WritesOf(rs, card, hier, t) ==
  IF IsAbsent(rs, card) THEN {card}
  ELSE IF IsDuplicate(rs, card) THEN {DuplicateEventOf(rs, card, t)}
  ELSE IF card.hash_algorithm \in DOMAIN hier
  THEN {UpgradedCardOf(card, hier, t), CollisionEventOf(rs, card, hier, t)}
  ELSE {}

\* C22: a HashConflict raised by engine.add at any write of add (the insert,
\* the upgraded card, an event card) is never swallowed: when the hash of a
\* card add hands to engine.add is already stored the call fails with
\* HashConflict and returns no hash, and a hash add returns is the hash of a
\* row that call has written.
C22_HashConflictSurfaces ==
  \A card \in InputCards :
    LET out == add(card, rows, now, hierarchy, 0)
    IN /\ (\E w \in WritesOf(rows, card, hierarchy, now) : HasHash(rows, w.hash))
            => /\ ~out.ok
               /\ out.error = "HashConflict"
               /\ out.hash = NoHash
       /\ out.ok => /\ ~HasHash(rows, out.hash)
                    /\ HasHash(out.rows, out.hash)

\* add has just failed with HashConflict: the event card of a duplicate was
\* already stored
C22_Witness ==
  /\ last.op = "add"
  /\ ~last.ok
  /\ last.error = "HashConflict"
  /\ last.result = NoHash
  /\ last.branch = "duplicate"

\* the event cards stored
EventRows(rs) == {r \in rs : IsEvent(r.content)}

\* C23: every event card add writes, for a duplicate or for a collision, is
\* digested under the DEFAULT algorithm whatever the algorithm of the card
\* that triggered it: every stored event row is keyed and stamped under
\* DEFAULT, and the event hash a call returns is a DEFAULT digest.
C23_EventUnderDefault ==
  /\ \A r \in EventRows(rows) :
       /\ r.hash.alg = DEFAULT
       /\ get_hash_function(r.g_time) = DEFAULT
       /\ r.hash = Digest(DEFAULT, r.content)
  /\ \A card \in InputCards :
       LET out == add(card, rows, now, hierarchy, 0)
       IN (out.ok /\ out.branch \in {"duplicate", "collision"})
            => /\ out.hash.alg = DEFAULT
               /\ \A r \in EventRows(Written(rows, out.rows)) :
                    r.hash = Digest(DEFAULT, r.content)

\* a card of another algorithm than DEFAULT has just been answered with a
\* duplicate event, stored under DEFAULT
C23_Witness ==
  /\ last.op = "add"
  /\ last.ok
  /\ last.branch = "duplicate"
  /\ last.card.hash_algorithm # DEFAULT
  /\ last.result.alg = DEFAULT
  /\ \E r \in EventRows(rows) : r.hash = last.result

Instants == 0..MaxTime

C26_NonEmptyContent ==
  /\ \A content \in RawInputs, hashFunction \in InputAlgs, node \in BOOLEAN :
       LET c == MCardConstructor(content, hashFunction, now, node)
           buf == ToContentBuffer(content, node)
       IN /\ c.ok => /\ c.card.content.v # ""
                     /\ c.card # NullCard
          /\ content.type \in {"null", "undefined"} => ~c.ok
          /\ (content.type = "object" /\ content.v = "") => ~c.ok
          /\ (buf.ok /\ buf.bytes = "") => ~c.ok /\ c.card = NullCard
          /\ (content.v = "" /\ content.type \in {"string", "buffer"}) => ~c.ok
  /\ \A r \in rows : r.content.kind = "data" => r.content.v # ""

\* the constructor has just refused content that converts to zero bytes,
\* next to a stored card
C26_Witness ==
  /\ last.op = "construct"
  /\ ~last.ok
  /\ last.error = "ContentEmpty"
  /\ last.card = NullCard
  /\ rows # {}

\* ------------------------------------------------- middleware claims
\* an action has been dispatched through the middleware
Dispatched == mw.run.outcome # "none"

CallsOf(name) == {i \in DOMAIN mw.run.log : mw.run.log[i] = name}

\* C27: the middleware calls next(action) exactly once for every dispatched
\* action, before any storage call made for that action, and the handler
\* resolves to the value next returned.
C27_NextFirst ==
  Dispatched =>
    /\ Cardinality(CallsOf("next")) = 1
    /\ mw.run.log[1] = "next"
    /\ \A i \in CallsOf("createAndStoreMCard") \cup CallsOf("getState") :
         \A j \in CallsOf("next") : j < i
    /\ (mw.run.outcome = "resolved" => mw.run.value = mw.next.value)
    /\ (~mw.next.throws => mw.run.outcome \in {"pending", "resolved"})

\* a persisted action: next ran first, the storage call followed, and the
\* handler has resolved to what next returned
C27_Witness ==
  /\ Dispatched
  /\ mw.run.log = <<"next", "getState", "createAndStoreMCard">>
  /\ mw.run.outcome = "resolved"
  /\ mw.run.value = mw.next.value
  /\ mw.storageService = "resolves"

\* C28: createAndStoreMCard is called only for actions whose type is one of
\* todo/addTask, ADD_CARD, test/action; for every other action, and for
\* actions without a type, no storage call is made.
C28_OnlyPersistable ==
  (/\ Dispatched
   /\ (CallsOf("createAndStoreMCard") # {} \/ mw.run.stored # NullAction))
    => /\ ~mw.run.action.null
       /\ mw.run.action.type \in {"todo/addTask", "ADD_CARD", "test/action"}

\* an action of another type went through a store whose storage service
\* works, and nothing was stored
C28_Witness ==
  /\ Dispatched
  /\ mw.run.action.type = "todo/addTaskDone"
  /\ mw.storageService = "resolves"
  /\ mw.getState = "function"
  /\ mw.run.outcome = "resolved"
  /\ mw.run.log = <<"next">>
  /\ mw.run.stored = NullAction

\* C29: storage problems never break dispatch: when the storage service is
\* missing, or createAndStoreMCard or getState throws or rejects, the handler
\* never rejects and resolves with the result of next(action), provided
\* next itself did not throw.
C29_StorageNeverBreaksDispatch ==
  (Dispatched /\ ~mw.next.throws) =>
    /\ mw.run.outcome # "rejected"
    /\ mw.run.value = mw.next.value
    /\ (mw.storageService \in {"missing", "throws"} \/ mw.getState = "throws")
         => mw.run.outcome = "resolved"

\* createAndStoreMCard was called and has rejected; the handler has resolved
\* to the result of next all the same
C29_Witness ==
  /\ Dispatched
  /\ mw.storageService = "rejects"
  /\ CallsOf("createAndStoreMCard") # {}
  /\ mw.run.outcome = "resolved"
  /\ mw.run.value = mw.next.value

\* C30: the object passed to createAndStoreMCard has the type and the payload
\* of the dispatched action, nothing redacted or altered, plus
\* meta.stateSnapshot equal to the store state read after next(action) has
\* run; the dispatched action object itself is not modified.
C30_StoredAction ==
  (Dispatched /\ CallsOf("createAndStoreMCard") # {}) =>
    /\ mw.run.stored.type = mw.run.action.type
    /\ mw.run.stored.payload = mw.run.action.payload
    /\ mw.run.stored.meta.source = mw.run.action.meta.source
    /\ mw.run.stored.meta.stateSnapshot = mw.state
    /\ mw.run.stored.meta.present
    /\ mw.run.dispatched = mw.run.action

\* an action that already carried a stale stateSnapshot and a password in
\* its payload was stored with the state next had just produced
C30_Witness ==
  /\ Dispatched
  /\ CallsOf("createAndStoreMCard") # {}
  /\ mw.run.action.payload = "password"
  /\ mw.run.action.meta.stateSnapshot = 0
  /\ mw.run.stored.meta.stateSnapshot = mw.state
  /\ mw.state # 0

\* ------------------------------------------------------- remaining claims
\* the stored cards whose text includes q, and how many of them were
\* inserted no later than the row at place i
MatchingPlaces(q) ==
  {i \in DOMAIN order : includes(Text(RowsInOrder[i].content), q)}

RankOf(i, q) == Cardinality({j \in MatchingPlaces(q) : j <= i})

\* C31 as stated: after a card with text S has been added,
\* search_by_string(q) for any substring q of S returns a page whose items
\* include that card with its content unchanged.
C31_AsStated ==
  request.op = "search_by_string" =>
    LET p == search_by_string(request.q, 1, DEFAULT_PAGE_SIZE, RowsInOrder)
    IN \A r \in rows :
         (r.content.kind = "data" /\ includes(Text(r.content), request.q))
           => \E i \in DOMAIN p.items : /\ p.items[i].hash = r.hash
                                         /\ p.items[i].content = r.content

\* C31, amended: search_by_string(q) returns the first page of the stored
\* cards whose text includes q, in insertion order: total_items counts every
\* such card, each item is such a card with its content unchanged, and a
\* stored card whose text includes q is among the items exactly when fewer
\* than DEFAULT_PAGE_SIZE matching cards were inserted before it.
C31_SearchFinds ==
  request.op = "search_by_string" =>
    LET p == search_by_string(request.q, 1, DEFAULT_PAGE_SIZE, RowsInOrder)
    IN /\ p.ok
       /\ p.total_items = Cardinality(MatchingPlaces(request.q))
       /\ \A i \in DOMAIN p.items :
            \E r \in rows : /\ r.hash = p.items[i].hash
                             /\ r.content = p.items[i].content
                             /\ includes(Text(r.content), request.q)
       /\ \A i \in MatchingPlaces(request.q) :
            (RankOf(i, request.q) <= DEFAULT_PAGE_SIZE)
              <=> \E k \in DOMAIN p.items : p.items[k].hash = order[i]

\* a search has just matched more cards than one page holds
C31_Witness ==
  /\ last.op = "search_by_string"
  /\ last.ok
  /\ request.q = <<"X">>
  /\ last.page.total_items > DEFAULT_PAGE_SIZE
  /\ Len(last.page.items) = DEFAULT_PAGE_SIZE
  /\ last.page.has_next

\* C32: a card reconstructed from a persisted row (content bytes, hash,
\* g_time) carries exactly the supplied hash and g_time, with hash_algorithm
\* taken from the algorithm field of g_time, whatever the digest of the
\* bytes is; reconstruction fails when the content is no byte buffer, or
\* when hash or g_time is missing or empty.
C32_Reconstruction ==
  \A content \in RowContents, hash_value \in RowHashes,
     g_time_str \in RowGTimes, node \in BOOLEAN :
    LET c == MCardFromDataConstructor(content, hash_value, g_time_str, node)
    IN /\ c.ok => /\ c.card.hash = hash_value
                  /\ c.card.g_time = g_time_str
                  /\ c.card.hash_algorithm = get_hash_function(g_time_str)
                  /\ c.card.content = DataContent(content.v)
       /\ ~IsBuffer(content, node) => ~c.ok
       /\ (hash_value = NoHash \/ g_time_str = EmptyGTime) => ~c.ok
       /\ (/\ IsBuffer(content, node)
           /\ content.v # ""
           /\ hash_value # NoHash
           /\ g_time_str # EmptyGTime) => c.ok

\* a card has just been reconstructed whose hash is not the digest of its
\* bytes under the algorithm its g_time names
C32_Witness ==
  /\ last.op = "reconstruct"
  /\ last.ok
  /\ last.result = last.hash
  /\ last.card.hash # Digest(last.card.hash_algorithm, last.card.content)
  /\ last.card.hash.alg # last.card.hash_algorithm

\* C33 as stated: the event card of the duplicate branch and the event card
\* of the collision branch are written through the collection's own add, so
\* they pass duplicate and collision detection themselves: what the call
\* leaves behind is what add(event card) leaves behind.
C33_AsStated ==
  \A card \in InputCards :
    LET out == add(card, rows, now, hierarchy, 0)
    IN /\ IsDuplicate(rows, card) =>
            LET dup == add(DuplicateEventOf(rows, card, now), rows, now,
                           hierarchy, 0)
            IN /\ out.ok = dup.ok
               /\ out.rows = dup.rows
       /\ (IsCollision(rows, card) /\ card.hash_algorithm \in DOMAIN hierarchy) =>
            LET withUp == EngineAdd(rows, UpgradedCardOf(card, hierarchy, now))
                col == add(CollisionEventOf(rows, card, hierarchy, now),
                           withUp.rows, now, hierarchy, 0)
            IN withUp.ok => /\ out.ok = col.ok
                            /\ out.rows = col.rows

\* C34 as stated: the constructor validates the requested algorithm against
\* the closed set of six names: under any other name, one passed through
\* options.forceHashAlgorithm included, construction fails with
\* UnknownAlgorithm, and no card with a hash_algorithm outside the set is
\* ever created.
C34_AsStated ==
  /\ \A content \in RowContents, hashFunction \in AlgNames \ {""},
        forceHashAlgorithm \in AlgNames, node \in BOOLEAN :
       LET c == MCardConstructorOptions(content, hashFunction,
                                        forceHashAlgorithm, now, node)
       IN /\ c.ok => c.card.hash_algorithm \in Algs
          /\ (/\ Forced(hashFunction, forceHashAlgorithm) \notin Algs
              /\ ToContentBuffer(content, node).ok
              /\ ToContentBuffer(content, node).bytes # "")
               => ~c.ok /\ c.error = "UnknownAlgorithm"
  /\ (last.op = "new" /\ last.ok) => last.card.hash_algorithm \in Algs

\* the bytes of a classified buffer that are neither printable ASCII nor
\* tab, LF or CR
Unprintable(data) == {i \in DOMAIN data : ~IsPrintable(data[i])}

HasNul(data) == \E i \in DOMAIN data : data[i] = 0

\* C35 as stated: for bytes that match no magic prefix the classifier gives
\* text/plain exactly when all bytes are printable ASCII or tab, LF, CR and
\* no NUL is present, and application/octet-stream otherwise; when a magic
\* prefix matches, the first matching entry of the table decides.
C35_AsStated ==
  (last.op = "detectType" /\ request.q # NotABuffer) =>
    LET data == request.q
    IN /\ (\A k \in DOMAIN Signatures : ~StartsWith(data, Signatures[k][2])) =>
            /\ last.branch \in {"text/plain", "application/octet-stream"}
            /\ last.branch = "text/plain" <=>
                 (Unprintable(data) = {} /\ ~HasNul(data))
       /\ \A k \in DOMAIN Signatures :
            (/\ StartsWith(data, Signatures[k][2])
             /\ \A j \in 1..(k - 1) : ~StartsWith(data, Signatures[j][2]))
              => last.branch = Signatures[k][1]

\* C35 amended: a buffer shorter than four bytes is application/octet-stream
\* whatever it holds.  For a buffer of four bytes or more that matches no
\* magic prefix the classifier gives text/plain exactly when no NUL is
\* present and fewer than one byte in ten is other than printable ASCII,
\* tab, LF or CR, and application/octet-stream otherwise; when a magic prefix
\* matches, the first matching entry of the table decides.
C35_Classifier ==
  (last.op = "detectType" /\ request.q # NotABuffer) =>
    LET data == request.q
    IN /\ Len(data) < 4 => last.branch = "application/octet-stream"
       /\ (/\ Len(data) >= 4
           /\ \A k \in DOMAIN Signatures : ~StartsWith(data, Signatures[k][2]))
            =>
            /\ last.branch \in {"text/plain", "application/octet-stream"}
            /\ last.branch = "text/plain" <=>
                 (/\ 10 * Cardinality(Unprintable(data)) < Len(data)
                  /\ ~HasNul(data))
       /\ Len(data) >= 4 =>
            \A k \in DOMAIN Signatures :
              (/\ StartsWith(data, Signatures[k][2])
               /\ \A j \in 1..(k - 1) : ~StartsWith(data, Signatures[j][2]))
                => last.branch = Signatures[k][1]

\* a buffer matching no magic prefix has just been classified text/plain
\* although one of its bytes is outside the printable range
C35_Witness ==
  /\ last.op = "detectType"
  /\ request.q # NotABuffer
  /\ Len(request.q) >= 4
  /\ \A k \in DOMAIN Signatures : ~StartsWith(request.q, Signatures[k][2])
  /\ Unprintable(request.q) # {}
  /\ last.branch = "text/plain"

\* how often an engine operation occurs among the calls of one add
TimesCalled(calls, name) == Cardinality({i \in DOMAIN calls : calls[i] = name})

\* C36: every add ends after at most one engine.get and at most two
\* engine.add calls and calls engine.delete, engine.update and engine.clear
\* never: no stored row is removed or changed, count() does not decrease
\* across an add and grows by at most 2.
C36_BoundedAdd ==
  \A card \in InputCards \cup {NullCard}, fault \in FaultPoints :
    LET out == add(card, rows, now, hierarchy, fault)
        calls == EngineCalls(card, rows, now, hierarchy, fault)
    IN /\ \A i \in DOMAIN calls : calls[i] \in {"get", "add"}
       /\ TimesCalled(calls, "get") <= 1
       /\ TimesCalled(calls, "add") <= 2
       /\ rows \subseteq out.rows
       /\ Cardinality(Written(rows, out.rows)) <= TimesCalled(calls, "add")
       /\ EngineCount(out.rows) >= EngineCount(rows)
       /\ EngineCount(out.rows) <= EngineCount(rows) + 2

\* an add has just followed the collision branch to its end: one lookup, two
\* writes, and count() is greater by 2
C36_Witness ==
  /\ last.op = "add"
  /\ last.branch = "collision"
  /\ last.ok
  /\ EngineCount(rows) = last.count0 + 2
  /\ \E r \in rows : r.hash = last.card.hash /\ r.content # last.card.content

\* C37: when the collision branch is taken for content whose card under the
\* upgraded algorithm is already stored (the same colliding card added a
\* second time), the write of the upgraded card fails with HashConflict, add
\* fails, and the call leaves the store as it found it: no second upgraded
\* card and no collision event card.
C37_UpgradedAlreadyStored ==
  \A card \in InputCards :
    (/\ IsCollision(rows, card)
     /\ card.hash_algorithm \in DOMAIN hierarchy
     /\ HasHash(rows, UpgradedCardOf(card, hierarchy, now).hash)) =>
      LET out == add(card, rows, now, hierarchy, 0)
          up == UpgradedCardOf(card, hierarchy, now)
      IN /\ ~out.ok
         /\ out.error = "HashConflict"
         /\ out.rows = rows
         /\ Cardinality({r \in out.rows : r.hash = up.hash}) = 1
         /\ out.rows \cap {Row(CollisionEventOf(rows, card, hierarchy, now))}
              \subseteq rows

\* a colliding card has just been added for the second time: the call failed
\* with HashConflict at the upgraded card, which the store holds already, and
\* count() is what it was
C37_Witness ==
  /\ last.op = "add"
  /\ last.branch = "collision"
  /\ ~last.ok
  /\ last.error = "HashConflict"
  /\ last.card.hash_algorithm \in DOMAIN hierarchy
  /\ HasHash(rows, UpgradedCardOf(last.card, hierarchy, now).hash)
  /\ EngineCount(rows) = last.count0
  /\ \E e \in CollisionEvents(rows) :
       UpgradedHashOf(e) = UpgradedCardOf(last.card, hierarchy, now).hash

\* the store state once the first k dispatches have passed the reducers
RECURSIVE StateAfter(_, _)
StateAfter(history, k) ==
  IF k = 0 THEN 0
  ELSE IF history[k].reduced
  THEN Reduce(StateAfter(history, k - 1), history[k].action)
  ELSE StateAfter(history, k - 1)

\* C38: when several persistable actions are dispatched one after another
\* without awaiting the handler's promise, the createAndStoreMCard calls are
\* started in dispatch order, and each persisted snapshot is the state after
\* the actions dispatched up to and including its own, never that of a later
\* dispatch, also while earlier storage calls are pending.
C38_SnapshotsInDispatchOrder ==
  /\ \A i, j \in DOMAIN mw.calls :
       i < j => mw.calls[i].place < mw.calls[j].place
  /\ \A i \in DOMAIN mw.calls :
       LET call == mw.calls[i]
           own == mw.history[call.place]
       IN /\ call.place \in DOMAIN mw.history
          /\ own.reduced
          /\ isPersistable(own.action)
          /\ call.stored.type = own.action.type
          /\ call.stored.payload = own.action.payload
          /\ call.stored.meta.stateSnapshot =
               StateAfter(mw.history, call.place)
          /\ \A k \in DOMAIN mw.history :
               (k > call.place /\ mw.history[k].reduced)
                 => call.stored.meta.stateSnapshot # StateAfter(mw.history, k)
  /\ \A k \in DOMAIN mw.history :
       (mw.history[k].reduced /\ isPersistable(mw.history[k].action))
         => \E i \in DOMAIN mw.calls : mw.calls[i].place = k

\* two storage calls are pending at once and a third action has been
\* dispatched since: the snapshot of the first is the state after the first
\* action, the store has moved on
C38_Witness ==
  /\ Len(mw.calls) >= 2
  /\ mw.calls[1].pending
  /\ mw.calls[2].pending
  /\ Len(mw.history) > mw.calls[2].place
  /\ mw.history[Len(mw.history)].reduced
  /\ mw.calls[1].stored.meta.stateSnapshot # mw.state
  /\ mw.calls[1].stored.meta.stateSnapshot
       # mw.calls[2].stored.meta.stateSnapshot

====
